---- MODULE Spec2Model ----
(***************************************************************************)
(* MinecraftLightServer: the connection state machine, the player registry *)
(* and the broadcast fabric, as a state machine of goroutines.             *)
(*                                                                         *)
(* Every accepted TCP connection is a session s with one Player object.    *)
(* A session has three goroutines: the handler (Server.newPlayer), the     *)
(* reader (Server.handlePacket) and the keep-alive (Server.keepAliveUser). *)
(* One more goroutine calls Server.Close.  A step of the model is one      *)
(* operation on shared state: a sync.Map call, a counter update under      *)
(* counterMut, a socket read or write, a Close of a connection.            *)
(***************************************************************************)
EXTENDS Integers, Sequences, FiniteSets, TLC

\* ---------------------------------------------------------------- bounds
NCallers == 2       \* SetPort calls over the server's lifetime

NSess == 2          \* TCP connections accepted over the server's lifetime
MaxChat == 1        \* Chat (0x03) packets the clients send
MaxKeepAlive == 1   \* Keep Alive packets delivered to one session
MaxMove == 2        \* movement, action and animation packets the clients send
NWriters == 2       \* goroutines that call Pack on one connection at a time

\* ------------------------------------------------------ program constants
minecraftProtocol == 754
handshakePacketID == 0
maxVarIntLen == 5
maxVarLongLen == 10

Sess == 1..NSess
NoPlayer == 0                    \* sync.Map Load returning ok = false
NoField == -1                    \* a packet field whose ReadFrom failed
Usernames == {"", "bob"}         \* Login Start names; "" is a zero-length String
ProtoVersions == {753, minecraftProtocol}
NextStates == {1, 2, 3, NoField}
PacketIDs == {handshakePacketID, 1}
PingPayloads == {0, 7}

\* goroutines: handler, reader and keep-alive of session s, and the closer
H(s) == s
R(s) == NSess + s
K(s) == 2 * NSess + s
Closer == 0
Tasks == 0..(3 * NSess)
Handlers == {H(s) : s \in Sess}
Owner(t) == IF t = Closer THEN NoPlayer ELSE ((t - 1) % NSess) + 1

VARIABLES
    players,     \* Server.players : username -> Player (NoPlayer = absent)
    counter,     \* Server.counter
    listening,   \* the port channel is open, listen() accepts connections
    conn,        \* Player.connection : "none", "open", "broken", "closed"
    isDeleted,   \* Player.isDeleted
    username,    \* Player.username
    out,         \* packets written successfully to each connection
    pc,          \* position of each goroutine
    loc,         \* local variables of each goroutine
    hs,          \* the handshake newPlayer has parsed and the id of the
                 \* Login Start it has read, until it logs in
    nChat,       \* Chat packets read so far
    nMove,       \* movement, action and animation packets read so far
    watch,       \* kinds of packet that out records
    versions,    \* protocol versions the clients put in their handshakes
    removed,     \* players that a removePlayer(p) call deleted from the map
    closeSnap,   \* the registry and the counter when Close was called, and
                 \* whether a removePlayer call was under way
    pos,         \* Player.x and Player.z
    coords,      \* coordinates the clients put in their position packets
    look,        \* Player.yawAbs, pitchAbs, yaw and pitch, and the pairs of
                 \* absolute angles that came in one packet
    degrees,     \* angles the clients put in their look packets
    lsn,         \* Server.listener and the goroutines of listen(): the two
                 \* channels, the calls of Start and SetPort, the locals
                 \* listener and isListening
    wire,        \* what the broadcasts of movements wrote to each connection,
                 \* in the order of the writes
    stream,      \* the bytes a connection's socket has taken, in order
    writeLock,   \* the goroutine inside Write on that connection
    wr,          \* the goroutines calling Pack on that connection
    codec        \* a value, the bytes WriteTo made of it, what ReadFrom read

\* a connection under concurrent Pack calls, and one encode/decode
ioVars == <<stream, writeLock, wr, codec>>

vars == <<players, counter, listening, conn, isDeleted, username, out, pc,
          loc, hs, nChat, nMove, watch, versions, removed, closeSnap, pos,
          coords, look, degrees, lsn, wire, stream, writeLock, wr, codec>>

\* ---------------------------------------------------------------- helpers
Pkt(kind, about, n) == [kind |-> kind, about |-> about, n |-> n]

NoPkt == Pkt("none", NoPlayer, 0)

Kinds(s) == {p.kind : p \in out[s]}

\* locals of a goroutine that is not running
NoLoc == [target |-> NoPlayer,   \* p of the removePlayer call in progress
          ret |-> "none",        \* where that call returns to
          iter |-> {},           \* keys a broadcast Range has still to visit
          rmIter |-> {},         \* keys the Range in removePlayer has to visit
          rmSnap |-> {},         \* players present when that Range began
          deleted |-> NoPlayer,  \* the player LoadAndDelete returned
          rcpt |-> NoPlayer,     \* the player of the Range callback under way
          inner |-> {},          \* keys the inner Range of a broadcast has to visit
          snap |-> {},           \* players present when the broadcast began
          msg |-> NoPkt,         \* chat message being broadcast, Ping read
          event |-> 0,           \* which of the inbound movements msg is
          precedent |-> NoPlayer,\* result of the Load in addPlayer
          joinIdx |-> 0]         \* next packet of the Play-entry sequence

NoHandshake == [version |-> NoField, state |-> NoField, login |-> NoField]

\* sync.Map.Range visits the keys present when it starts
Keys == {u \in Usernames : players[u] # NoPlayer}

Registered == {players[u] : u \in Keys}

\* p.isDeleted is read without synchronisation: a goroutine may see the
\* value another goroutine wrote, or still the value from before
ReadIsDeleted(s) == IF isDeleted[s] THEN {TRUE, FALSE} ELSE {FALSE}

\* a read or write on the connection succeeds
ConnOk(s) == conn[s] = "open"

\* Packet.Pack on the connection of rcpt: recorded where the write succeeds
Deliver(rcpt, pkts) ==
    IF ConnOk(rcpt)
    THEN [out EXCEPT ![rcpt] = out[rcpt] \cup {p \in pkts : p.kind \in watch}]
    ELSE out

\* ------------------------------------------------------- machine words
\* an integer of the program is the sequence of its bits, the least
\* significant first: 16 of them for Short and UnsignedShort, 32 for Int and
\* VarInt, 64 for Long, VarLong and int; a byte is a number in 0..255
RECURSIVE Pow2(_)
Pow2(n) == IF n = 0 THEN 1 ELSE 2 * Pow2(n - 1)

\* a function on 1..n written out as the sequence it is
Tuple(f) == f \o <<>>

Zeros(w) == Tuple([i \in 1..w |-> 0])

\* the two's complement of n in w bits (n within 30 bits and a sign)
WordOf(n, w) ==
    Tuple([i \in 1..w |-> IF i <= 30 THEN (n \div Pow2(i - 1)) % 2
                          ELSE IF n < 0 THEN 1 ELSE 0])

\* the number an unsigned word of at most 30 bits stands for
RECURSIVE NatOf(_)
NatOf(word) ==
    IF Len(word) = 0 THEN 0 ELSE word[1] + 2 * NatOf(Tail(word))

\* the number a signed word stands for (a value within 30 bits and a sign)
IntOf(word) ==
    LET w == Len(word)
        low == IF w <= 30 THEN w - 1 ELSE 30
    IN  NatOf(SubSeq(word, 1, low)) - word[w] * Pow2(low)

\* x << k, x >> k of an unsigned and of a signed operand, x | y, x & y
Shl(word, k) ==
    Tuple([i \in 1..Len(word) |-> IF i > k THEN word[i - k] ELSE 0])

Shr(word, k) ==
    Tuple([i \in 1..Len(word) |->
             IF i + k <= Len(word) THEN word[i + k] ELSE 0])

Sar(word, k) ==
    Tuple([i \in 1..Len(word) |->
             IF i + k <= Len(word) THEN word[i + k] ELSE word[Len(word)]])

BitOr(a, b) ==
    Tuple([i \in 1..Len(a) |-> IF a[i] = 1 \/ b[i] = 1 THEN 1 ELSE 0])

BitAnd(a, b) ==
    Tuple([i \in 1..Len(a) |-> IF a[i] = 1 /\ b[i] = 1 THEN 1 ELSE 0])

\* the mask with the k low bits set: 0x7F, 0xFFF, 0x3FFFFFF
LowMask(k, w) == Tuple([i \in 1..w |-> IF i <= k THEN 1 ELSE 0])

\* byte(x): the low eight bits
ByteOf(word) == NatOf(SubSeq(word, 1, 8))

\* a conversion to a type of w bits: truncation, or extension of a byte by
\* zeros
Extend(b, w) ==
    Tuple([i \in 1..w |-> IF i <= 8 THEN (b \div Pow2(i - 1)) % 2 ELSE 0])

\* the result of a ReadFrom: the error, the value, the bytes taken from the
\* reader and the count n it returns
Decoded(err, v, used, n) == [err |-> err, v |-> v, used |-> used, n |-> n]

\* ------------------------------------------------------------- types.go
\* io.ReadFull(r, bs[:]) for an array of k bytes
ReadFull(r, k) == Len(r) >= k

\* the bytes of a word, the most significant first
BigEndian(word) ==
    Tuple([i \in 1..(Len(word) \div 8) |->
             ByteOf(Shr(word, Len(word) - 8 * i))])

\* int16(bs[0])<<8 | int16(bs[1]), and the same for four and eight bytes
RECURSIVE FromBigEndian(_, _)
FromBigEndian(bs, w) ==
    IF Len(bs) = 0 THEN Zeros(w)
    ELSE BitOr(Shl(Extend(bs[1], w), 8 * (Len(bs) - 1)),
               FromBigEndian(Tail(bs), w))

ShortWriteTo(x) == BigEndian(x)

ShortReadFrom(r) ==
    IF ~ReadFull(r, 2) THEN Decoded(TRUE, Zeros(16), Len(r), Len(r))
    ELSE Decoded(FALSE, FromBigEndian(SubSeq(r, 1, 2), 16), 2, 2)

UnsignedShortWriteTo(x) == BigEndian(x)

UnsignedShortReadFrom(r) ==
    IF ~ReadFull(r, 2) THEN Decoded(TRUE, Zeros(16), Len(r), Len(r))
    ELSE Decoded(FALSE, FromBigEndian(SubSeq(r, 1, 2), 16), 2, 2)

IntWriteTo(x) == BigEndian(x)

IntReadFrom(r) ==
    IF ~ReadFull(r, 4) THEN Decoded(TRUE, Zeros(32), Len(r), Len(r))
    ELSE Decoded(FALSE, FromBigEndian(SubSeq(r, 1, 4), 32), 4, 4)

LongWriteTo(x) == BigEndian(x)

LongReadFrom(r) ==
    IF ~ReadFull(r, 8) THEN Decoded(TRUE, Zeros(64), Len(r), Len(r))
    ELSE Decoded(FALSE, FromBigEndian(SubSeq(r, 1, 8), 64), 8, 8)

\* the loop of VarInt.WriteTo and VarLong.WriteTo: seven bits to a byte,
\* the low ones first, 0x80 set while more follow
RECURSIVE VarWrite(_)
VarWrite(num) ==
    LET b == NatOf(SubSeq(num, 1, 7))
        rest == Shr(num, 7)
    IN  IF rest # Zeros(Len(num)) THEN <<b + 128>> \o VarWrite(rest)
        ELSE <<b>>

VarIntWriteTo(v) == VarWrite(v)

VarLongWriteTo(v) == VarWrite(v)

\* sec&0x7F shifted to its place and or-ed in (a shift beyond the width of
\* the type leaves nothing)
OrGroupOfEight(V, sec, n) == BitOr(V, Shl(Extend(sec % 128, Len(V)), 8 * n))

OrGroup(V, sec, n) == BitOr(V, Shl(Extend(sec % 128, Len(V)), 7 * n))

\* the loop of VarInt.ReadFrom, at its n-th round with V read so far: the
\* guard is n > maxVarIntLen
RECURSIVE VarIntLoop(_, _, _)
VarIntLoop(r, n, V) ==
    IF n > maxVarIntLen THEN Decoded(TRUE, Zeros(32), n, n)
    ELSE IF Len(r) <= n THEN Decoded(TRUE, Zeros(32), n, n)
    ELSE IF r[n + 1] >= 128 THEN VarIntLoop(r, n + 1, OrGroup(V, r[n + 1], n))
    ELSE Decoded(FALSE, OrGroup(V, r[n + 1], n), n + 1, n + 1)

VarIntReadFrom(r) == VarIntLoop(r, 0, Zeros(32))

\* the loop of VarLong.ReadFrom: the guard is n >= maxVarLongLen
RECURSIVE VarLongLoop(_, _, _)
VarLongLoop(r, n, V) ==
    IF n >= maxVarLongLen THEN Decoded(TRUE, Zeros(64), n, n)
    ELSE IF Len(r) <= n THEN Decoded(TRUE, Zeros(64), n, n)
    ELSE IF r[n + 1] >= 128 THEN VarLongLoop(r, n + 1, OrGroup(V, r[n + 1], n))
    ELSE Decoded(FALSE, OrGroup(V, r[n + 1], n), n + 1, n + 1)

VarLongReadFrom(r) == VarLongLoop(r, 0, Zeros(64))

\* Position.WriteTo: X, Y and Z are int; the 64 bits are
\* (X&0x3FFFFFF)<<38 | (Z&0x3FFFFFF)<<12 | Y&0xFFF, written most
\* significant byte first
PositionBits(p) ==
    BitOr(BitOr(Shl(BitAnd(WordOf(p.X, 64), LowMask(26, 64)), 38),
                Shl(BitAnd(WordOf(p.Z, 64), LowMask(26, 64)), 12)),
          BitAnd(WordOf(p.Y, 64), LowMask(12, 64)))

PositionWriteTo(p) == BigEndian(PositionBits(p))

\* if x >= 1<<k { x -= 1 << (k+1) }
NegativeNever(x, k) == x

Negative(x, k) == IF x >= Pow2(k) THEN x - Pow2(k + 1) ELSE x

\* Position.ReadFrom: a Long v is read; x is v >> 38, y is v & 0xFFF and z
\* is v << 26 >> 38, shifts of a signed 64-bit value
PositionReadFrom(r) ==
    LET long == LongReadFrom(r)
        v == long.v
    IN  IF long.err THEN Decoded(TRUE, [X |-> 0, Y |-> 0, Z |-> 0],
                                 long.used, long.n)
        ELSE Decoded(FALSE,
                     [X |-> Negative(IntOf(Sar(v, 38)), 25),
                      Y |-> Negative(IntOf(BitAnd(v, LowMask(12, 64))), 11),
                      Z |-> Negative(IntOf(Sar(Shl(v, 26), 38)), 25)],
                     long.used, long.n)

\* ------------------------------------------------------------ packet.go
\* VarInt.Len: the number of bytes of the encoded VarInt
VarIntLen(v) == Len(VarIntWriteTo(v))

\* Packet.Pack: the total length, the packet id and the data go to a local
\* buffer
PackBufferDataLength(pk) ==
    VarIntWriteTo(WordOf(Len(pk.data), 32))
    \o VarIntWriteTo(WordOf(pk.ID, 32))
    \o pk.data

PackBuffer(pk) ==
    VarIntWriteTo(WordOf(VarIntLen(WordOf(pk.ID, 32)) + Len(pk.data), 32))
    \o VarIntWriteTo(WordOf(pk.ID, 32))
    \o pk.data

\* Pack with a Write on w for each of the three parts
PackPerField(pk) ==
    <<VarIntWriteTo(WordOf(VarIntLen(WordOf(pk.ID, 32)) + Len(pk.data), 32)),
      VarIntWriteTo(WordOf(pk.ID, 32)),
      pk.data>>

\* the Write calls of Pack on w: the buffer is sent in one
Pack(pk) == <<PackBuffer(pk)>>

\* ------------------------------------------------------------ player.go
writeEntityMetadataPacketID == 68

\* the entity metadata entry of an action: index, type and value
MetadataEntry(action) ==
    CASE action = 0 ->
           <<6>> \o VarIntWriteTo(WordOf(18, 32)) \o VarIntWriteTo(WordOf(5, 32))
      [] action = 1 ->
           <<6>> \o VarIntWriteTo(WordOf(18, 32)) \o VarIntWriteTo(WordOf(0, 32))
      [] action = 3 ->
           <<0>> \o VarIntWriteTo(WordOf(0, 32)) \o VarIntWriteTo(WordOf(8, 32))
      [] action = 4 ->
           <<0>> \o VarIntWriteTo(WordOf(0, 32)) \o VarIntWriteTo(WordOf(0, 32))
      [] OTHER -> <<>>

\* Player.writeEntityAction: the Write calls on the connection. The switch
\* returns nil for an action it does not support; the others end the
\* metadata array with 0xFF and Pack the packet
writeEntityActionAlways(id, action) ==
    Pack([ID |-> writeEntityMetadataPacketID,
          data |-> VarIntWriteTo(id) \o MetadataEntry(action) \o <<255>>])

writeEntityAction(id, action) ==
    IF action \in {0, 1, 3, 4}
    THEN Pack([ID |-> writeEntityMetadataPacketID,
               data |-> VarIntWriteTo(id) \o MetadataEntry(action) \o <<255>>])
    ELSE <<>>

\* r.Read(buf) for a buffer of `length` bytes when the reader hands over
\* `got` bytes: they fill the front of buf, the rest of buf stays zero
ReadInto(r, length, got) ==
    Tuple([i \in 1..length |-> IF i <= got THEN r[i] ELSE 0])

\* Packet.Unpack on the reader r whose Read call returns at most `segment`
\* bytes: the error, the ID, the data left in the packet, the bytes taken
\* from r
Unpacked(err, id, data, used) ==
    [err |-> err, ID |-> id, data |-> data, used |-> used]

Unpack(r, segment) ==
    LET length == VarIntReadFrom(r)
        len == IntOf(length.v)
        after == SubSeq(r, length.used + 1, Len(r))
        got == IF Len(after) < len
               THEN (IF Len(after) < segment THEN Len(after) ELSE segment)
               ELSE (IF len < segment THEN len ELSE segment)
        buf == ReadInto(after, len, got)
        packetID == VarIntReadFrom(buf)
    IN  IF length.err THEN Unpacked(TRUE, 0, <<>>, length.used)
        ELSE IF len < 1 THEN Unpacked(TRUE, 0, <<>>, length.used)
        ELSE IF got = 0 THEN Unpacked(TRUE, 0, <<>>, length.used)
        ELSE IF packetID.err
             THEN Unpacked(TRUE, 0, SubSeq(buf, packetID.used + 1, len),
                           length.used + got)
        ELSE Unpacked(FALSE, IntOf(packetID.v),
                      SubSeq(buf, packetID.used + 1, len), length.used + got)

\* Player.x and Player.z of a new player (connection.go: x: 0, z: 0)
Spawn == <<0, 0>>

\* the calls on the listener: 0 is Start, the others are SetPort
Callers == 0..NCallers

serverPort == 25565

\* the port a call submits: Start the configured one, each SetPort its own
PortOf(c) == serverPort + c

NoReply == [port |-> 0, ok |-> FALSE]

\* NewServer: the two channels are made, listen() does not run yet
NoListen ==
    [portValue |-> "open",     \* s.listener.portValue, or "closed"
     port |-> "none",          \* the goroutine that ranges over portNumber
     newPort |-> 0,            \* the port it has received
     bound |-> FALSE,          \* err == nil for its net.Listen
     listener |-> 0,           \* the local listener: a port, 0 for nil
     open |-> {},              \* the listeners that are bound and not closed
     isListening |-> TRUE,     \* the local isListening
     acc |-> "none",           \* the accept loop of listen()
     on |-> 0,                 \* the listener its Accept call blocks on
     late |-> {},              \* sessions accepted after Close was called
     calls |-> [c \in Callers |-> [pc |-> "idle", reply |-> NoReply]]]

\* Float.toAngle: the angle in steps of 1/256 of a turn
toAngle(deg) == ((deg * 256) \div 360) % 256

\* the angles of a new player (yawAbs: 0, pitchAbs: 0, pitch: 0, yaw: 0)
NoLook == [yawAbs |-> 0, pitchAbs |-> 0, yaw |-> 0, pitch |-> 0,
           read |-> {<<0, 0>>}]

\* the compact angles a packet about a player carries, as the goroutine
\* that writes it reads them from the Player
Pose(pkt) ==
    IF pkt.kind \in {"SpawnPlayer", "EntityTeleport", "EntityRotation"}
    THEN <<look[pkt.about].yaw, look[pkt.about].pitch>>
    ELSE IF pkt.kind = "EntityLook" THEN <<look[pkt.about].yaw>>
    ELSE <<>>

\* the angles after a look packet with yawAbs a and pitchAbs b is handled
Looked(l, a, b) ==
    [yawAbs |-> a, pitchAbs |-> b, yaw |-> toAngle(a), pitch |-> toAngle(b),
     read |-> l.read \cup {<<a, b>>}]

\* no Pack call on the connection under study, nothing being encoded
NoCodec == [type |-> "none"]

IdleIO ==
    /\ stream = <<>>
    /\ writeLock = 0
    /\ wr = <<>>
    /\ codec = NoCodec

InitSessions(kinds, sent, offered) ==
    /\ watch = kinds
    /\ versions = sent
    /\ coords = offered
    /\ pos = [s \in Sess |-> Spawn]
    /\ look = [s \in Sess |-> NoLook]
    /\ degrees = {0}
    /\ lsn = NoListen
    /\ wire = [s \in Sess |-> <<>>]
    /\ players = [u \in Usernames |-> NoPlayer]
    /\ counter = 0
    /\ listening = TRUE
    /\ conn = [s \in Sess |-> "none"]
    /\ isDeleted = [s \in Sess |-> FALSE]
    /\ username = [s \in Sess |-> ""]
    /\ out = [s \in Sess |-> {}]
    /\ pc = [t \in Tasks |-> "idle"]
    /\ loc = [t \in Tasks |-> NoLoc]
    /\ hs = [s \in Sess |-> NoHandshake]
    /\ nChat = 0
    /\ nMove = 0
    /\ removed = {}
    /\ closeSnap = [reg |-> {}, counter |-> 0, removing |-> FALSE]

InitWith(kinds, sent) == InitSessions(kinds, sent, {Spawn}) /\ IdleIO

InitWatching(kinds) == InitWith(kinds, ProtoVersions)

Init == InitWatching({"StatusResponse", "Pong", "LoginSuccess", "Chat"})

\* the goroutine moves to position p
Goto(t, p) == pc' = [pc EXCEPT ![t] = p]

\* the goroutine ends (return or runtime.Goexit) and its locals are gone
Finish(t, how) ==
    /\ pc' = [pc EXCEPT ![t] = how]
    /\ loc' = [loc EXCEPT ![t] = NoLoc]

\* the goroutine is inside removePlayer
RmPcs == {"rm_close", "rm_delete", "rm_decr", "rm_notify", "rm_destroy"}

InRemove(t) == pc[t] \in RmPcs

\* ------------------------------------------------- removePlayerAndExit
\* removePlayerAndExit(p, err): removePlayer(p), then runtime.Goexit() ends
\* the goroutine that made the call
CallRemoveExit(t, p) ==
    /\ pc' = [pc EXCEPT ![t] = "rm_close"]
    /\ loc' = [loc EXCEPT ![t].target = p, ![t].ret = "goexit"]

\* ------------------------------------------------------------- listener
\* listen: Accept returns a connection and newPlayer starts on it
\* (sessions are numbered in the order they are accepted)
Accept(s) ==
    /\ listening
    /\ pc[H(s)] = "idle"
    /\ \A r \in Sess : r < s => conn[r] # "none"
    /\ conn' = [conn EXCEPT ![s] = "open"]
    /\ Goto(H(s), "hs_read")
    /\ UNCHANGED <<players, counter, listening, isDeleted, username, out, loc,
                   hs, nChat, nMove, watch, versions, pos, coords, look,
                   degrees, lsn, wire, ioVars, removed, closeSnap>>

\* the peer goes away: later reads and writes on the connection fail
Break(s) ==
    /\ conn[s] = "open"
    /\ conn' = [conn EXCEPT ![s] = "broken"]
    /\ UNCHANGED <<players, counter, listening, isDeleted, username, out, pc,
                   loc, hs, nChat, nMove, watch, versions, pos, coords, look,
                   degrees, lsn, wire, ioVars, removed, closeSnap>>

\* ------------------------------------------------------------ handshake
\* Player.readHandshake on the fields (version, state); err is assigned for
\* a wrong version and assigned again by the read of the next state
readHandshakeNoStateCheck(v, st) ==
    IF v = NoField
    THEN [state |-> NoField, err |-> TRUE]
    ELSE [state |-> st, err |-> st = NoField]

readHandshake(v, st) ==
    IF v = NoField
    THEN [state |-> NoField, err |-> TRUE]
    ELSE LET errVersion == v # minecraftProtocol
             errRead == st = NoField
             err == IF errRead THEN TRUE ELSE st # 1 /\ st # 2
         IN  [state |-> st, err |-> err]

\* newPlayer: get the handshake packet, check its id, parse it
Handshake(s) ==
    /\ pc[H(s)] = "hs_read"
    /\ IF ~ConnOk(s)
       THEN /\ CallRemoveExit(H(s), s)
            /\ UNCHANGED hs
       ELSE \E id \in PacketIDs, v \in versions \cup {NoField},
                 st \in NextStates :
              IF id # handshakePacketID
              THEN /\ v = NoField /\ st = NoField
                   /\ CallRemoveExit(H(s), s)
                   /\ UNCHANGED hs
              ELSE /\ v = NoField => st = NoField
                   /\ hs' = [hs EXCEPT ![s] = [version |-> v, state |-> st,
                                                login |-> NoField]]
                   /\ IF readHandshake(v, st).err
                      THEN CallRemoveExit(H(s), s)
                      ELSE /\ Goto(H(s), IF readHandshake(v, st).state = 1
                                         THEN "st_req" ELSE "lg_read")
                           /\ UNCHANGED loc
    /\ UNCHANGED <<players, counter, listening, conn, isDeleted, username, out,
                   nChat, nMove, watch, versions, pos, coords, look, degrees,
                   lsn, wire, ioVars, removed, closeSnap>>

\* ------------------------------------------------------- status branch
\* discard the Request packet, whatever the read returns
StatusRequest(s) ==
    /\ pc[H(s)] = "st_req"
    /\ Goto(H(s), "st_resp")
    /\ UNCHANGED <<players, counter, listening, conn, isDeleted, username, out,
                   loc, hs, nChat, nMove, watch, versions, pos, coords, look,
                   degrees, lsn, wire, ioVars, removed, closeSnap>>

\* write the Response (JSON)
StatusResponse(s) ==
    /\ pc[H(s)] = "st_resp"
    /\ IF ConnOk(s)
       THEN /\ out' = Deliver(s, {Pkt("StatusResponse", s, 0)})
            /\ Goto(H(s), "st_ping")
            /\ UNCHANGED loc
       ELSE /\ CallRemoveExit(H(s), s)
            /\ UNCHANGED out
    /\ UNCHANGED <<players, counter, listening, conn, isDeleted, username, hs,
                   nChat, nMove, watch, versions, pos, coords, look, degrees,
                   lsn, wire, ioVars, removed, closeSnap>>

\* read the Ping and its Long payload
StatusPing(s) ==
    /\ pc[H(s)] = "st_ping"
    /\ IF ConnOk(s)
       THEN \E payload \in PingPayloads \cup {NoField} :
              /\ loc' = [loc EXCEPT ![H(s)].msg = Pkt("Ping", s, payload)]
              /\ Goto(H(s), "st_pong")
       ELSE CallRemoveExit(H(s), s)
    /\ UNCHANGED <<players, counter, listening, conn, isDeleted, username, out,
                   hs, nChat, nMove, watch, versions, pos, coords, look,
                   degrees, lsn, wire, ioVars, removed, closeSnap>>

\* var pingPayload Long; _, _ = pingPayload.ReadFrom(ping): the Long of the
\* Ping, or the zero value when the Ping carries no Long
pingPayloadZero(ping) == 0

pingPayload(ping) == IF ping = NoField THEN 0 ELSE ping

\* write the Pong, return, and the deferred Close runs
StatusPong(s) ==
    /\ pc[H(s)] = "st_pong"
    /\ IF ConnOk(s)
       THEN /\ out' = Deliver(s, {Pkt("Pong", s, pingPayload(loc[H(s)].msg.n))})
            /\ conn' = [conn EXCEPT ![s] = "closed"]
            /\ Finish(H(s), "returned")
       ELSE /\ CallRemoveExit(H(s), s)
            /\ UNCHANGED <<out, conn>>
    /\ UNCHANGED <<players, counter, listening, isDeleted, username, hs, nChat,
                   nMove, watch, versions, pos, coords, look, degrees, lsn,
                   wire, ioVars, removed, closeSnap>>

\* -------------------------------------------------------- login branch
\* read Login Start and parse the username, then check the packet id
LoginStartAnyID(s) ==
    /\ pc[H(s)] = "lg_read"
    /\ IF ~ConnOk(s)
       THEN /\ CallRemoveExit(H(s), s)
            /\ UNCHANGED <<username, hs>>
       ELSE \E id \in PacketIDs, name \in Usernames :
              /\ username' = [username EXCEPT ![s] = name]
              /\ hs' = [hs EXCEPT ![s].login = id]
              /\ Goto(H(s), "lg_success")
              /\ UNCHANGED loc
    /\ UNCHANGED <<players, counter, listening, conn, isDeleted, out, nChat,
                   nMove, watch, versions, pos, coords, look, degrees, lsn,
                   wire, ioVars, removed, closeSnap>>

LoginStart(s) ==
    /\ pc[H(s)] = "lg_read"
    /\ IF ~ConnOk(s)
       THEN /\ CallRemoveExit(H(s), s)
            /\ UNCHANGED <<username, hs>>
       ELSE \E id \in PacketIDs, name \in Usernames :
              /\ username' = [username EXCEPT ![s] = name]
              /\ hs' = [hs EXCEPT ![s].login = id]
              /\ IF id = handshakePacketID
                 THEN /\ Goto(H(s), "lg_success")
                      /\ UNCHANGED loc
                 ELSE CallRemoveExit(H(s), s)
    /\ UNCHANGED <<players, counter, listening, conn, isDeleted, out, nChat,
                   nMove, watch, versions, pos, coords, look, degrees, lsn,
                   wire, ioVars, removed, closeSnap>>

\* write Login Success, then call addPlayer
LoginSuccess(s) ==
    /\ pc[H(s)] = "lg_success"
    /\ IF ConnOk(s)
       THEN /\ out' = Deliver(s, {Pkt("LoginSuccess", s, 0)})
            /\ Goto(H(s), "add_load")
            /\ UNCHANGED loc
       ELSE /\ CallRemoveExit(H(s), s)
            /\ UNCHANGED out
    /\ UNCHANGED <<players, counter, listening, conn, isDeleted, username, hs,
                   nChat, nMove, watch, versions, pos, coords, look, degrees,
                   lsn, wire, ioVars, removed, closeSnap>>

\* ------------------------------------------------------------ addPlayer
\* precedent, ok := s.players.Load(p.username); the handshake of newPlayer
\* is not used from here on
AddLoad(s) ==
    /\ pc[H(s)] = "add_load"
    /\ hs' = [hs EXCEPT ![s] = NoHandshake]
    /\ IF players[username[s]] # NoPlayer
       THEN /\ Goto(H(s), "rm_close")
            /\ loc' = [loc EXCEPT ![H(s)].precedent = players[username[s]],
                                  ![H(s)].target = players[username[s]],
                                  ![H(s)].ret = "add_store"]
       ELSE /\ Goto(H(s), "add_incr")
            /\ UNCHANGED loc
    /\ UNCHANGED <<players, counter, listening, conn, isDeleted, username, out,
                   nChat, nMove, watch, versions, pos, coords, look, degrees,
                   lsn, wire, ioVars, removed, closeSnap>>

\* s.counter++ under counterMut, when the player is new
AddIncrementUnlocked(s) ==
    /\ pc[H(s)] = "add_incr"
    /\ \E seen \in 0..counter : counter' = seen + 1
    /\ Goto(H(s), "add_store")
    /\ UNCHANGED <<players, listening, conn, isDeleted, username, out, loc, hs,
                   nChat, nMove, watch, versions, pos, coords, look, degrees,
                   lsn, wire, ioVars, removed, closeSnap>>

AddIncrement(s) ==
    /\ pc[H(s)] = "add_incr"
    /\ counter' = counter + 1
    /\ Goto(H(s), "add_store")
    /\ UNCHANGED <<players, listening, conn, isDeleted, username, out, loc, hs,
                   nChat, nMove, watch, versions, pos, coords, look, degrees,
                   lsn, wire, ioVars, removed, closeSnap>>

\* s.players.Store(p.username, p); newPlayer goes on to the Play entry
AddStore(s) ==
    /\ pc[H(s)] = "add_store"
    /\ players' = [players EXCEPT ![username[s]] = s]
    /\ Goto(H(s), "join")
    /\ loc' = [loc EXCEPT ![H(s)].precedent = NoPlayer, ![H(s)].joinIdx = 1]
    /\ UNCHANGED <<counter, listening, conn, isDeleted, username, out, hs,
                   nChat, nMove, watch, versions, pos, coords, look, degrees,
                   lsn, wire, ioVars, removed, closeSnap>>

\* --------------------------------------------------------- removePlayer
\* p.isDeleted = true; p.connection.Close()
RemoveClose(t) ==
    /\ pc[t] = "rm_close"
    /\ isDeleted' = [isDeleted EXCEPT ![loc[t].target] = TRUE]
    /\ conn' = [conn EXCEPT ![loc[t].target] = "closed"]
    /\ Goto(t, "rm_delete")
    /\ UNCHANGED <<players, counter, listening, username, out, loc, hs, nChat,
                   nMove, watch, versions, pos, coords, look, degrees, lsn,
                   wire, ioVars, removed, closeSnap>>

\* the end of removePlayer: back in addPlayer, or runtime.Goexit
ReturnFromRemove(t) ==
    IF loc[t].ret = "goexit"
    THEN Finish(t, "exited")
    ELSE /\ Goto(t, loc[t].ret)
         /\ loc' = [loc EXCEPT ![t].target = NoPlayer, ![t].ret = "none",
                               ![t].rmIter = {}, ![t].rmSnap = {},
                               ![t].deleted = NoPlayer, ![t].rcpt = NoPlayer]

\* s.players.LoadAndDelete(p.username): the entry under p's username goes,
\* whichever player it holds
LoadOnly(p) == players

LoadAndDelete(p) == [players EXCEPT ![username[p]] = NoPlayer]

RemoveDelete(t) ==
    /\ pc[t] = "rm_delete"
    /\ players' = LoadAndDelete(loc[t].target)
    /\ IF players' # players
       THEN /\ Goto(t, "rm_decr")
            /\ removed' = IF players[username[loc[t].target]] = loc[t].target
                          THEN removed \cup {loc[t].target} ELSE removed
            /\ loc' = [loc EXCEPT
                   ![t].deleted = players[username[loc[t].target]]]
       ELSE /\ ReturnFromRemove(t)
            /\ UNCHANGED removed
    /\ UNCHANGED <<counter, listening, conn, isDeleted, username, out, hs,
                   nChat, nMove, watch, versions, pos, coords, look, degrees,
                   lsn, wire, ioVars, closeSnap>>

\* s.counter-- under counterMut; the Range over the other clients begins
RemoveDecrement(t) ==
    /\ pc[t] = "rm_decr"
    /\ counter' = counter - 1
    /\ IF Keys = {}
       THEN ReturnFromRemove(t)
       ELSE /\ Goto(t, "rm_notify")
            /\ loc' = [loc EXCEPT ![t].rmIter = Keys,
                                  ![t].rmSnap = Registered]
    /\ UNCHANGED <<players, listening, conn, isDeleted, username, out, hs,
                   nChat, nMove, watch, versions, pos, coords, look, degrees,
                   lsn, wire, ioVars, removed, closeSnap>>

\* one client of the Range: PlayerInfo(action 4, count 1, uuid of p) is
\* written to it, the write error ignored; a key deleted since the Range
\* began is passed over
RemoveNotify(t) ==
    /\ pc[t] = "rm_notify"
    /\ \E k \in loc[t].rmIter :
         IF players[k] = NoPlayer
         THEN /\ IF loc[t].rmIter = {k}
                 THEN ReturnFromRemove(t)
                 ELSE /\ loc' = [loc EXCEPT ![t].rmIter = loc[t].rmIter \ {k}]
                      /\ UNCHANGED pc
              /\ UNCHANGED out
         ELSE /\ out' = Deliver(players[k],
                                {Pkt("PlayerInfoRemove", loc[t].target, 0)})
              /\ Goto(t, "rm_destroy")
              /\ loc' = [loc EXCEPT ![t].rmIter = loc[t].rmIter \ {k},
                                    ![t].rcpt = players[k]]
    /\ UNCHANGED <<players, counter, listening, conn, isDeleted, username, hs,
                   nChat, nMove, watch, versions, pos, coords, look, degrees,
                   lsn, wire, ioVars, removed, closeSnap>>

\* the same client: DestroyEntities(count 1, entity id of p), the write error
\* ignored; removePlayer returns after the last client
RemoveDestroySkipped(t) ==
    /\ pc[t] = "rm_destroy"
    /\ IF loc[t].rmIter = {}
       THEN ReturnFromRemove(t)
       ELSE /\ Goto(t, "rm_notify")
            /\ loc' = [loc EXCEPT ![t].rcpt = NoPlayer]
    /\ UNCHANGED <<players, counter, listening, conn, isDeleted, username, out,
                   hs, nChat, nMove, watch, versions, pos, coords, look,
                   degrees, lsn, wire, ioVars, removed, closeSnap>>

RemoveDestroy(t) ==
    /\ pc[t] = "rm_destroy"
    /\ out' = Deliver(loc[t].rcpt, {Pkt("DestroyEntities", loc[t].target, 0)})
    /\ IF loc[t].rmIter = {}
       THEN ReturnFromRemove(t)
       ELSE /\ Goto(t, "rm_notify")
            /\ loc' = [loc EXCEPT ![t].rcpt = NoPlayer]
    /\ UNCHANGED <<players, counter, listening, conn, isDeleted, username, hs,
                   nChat, nMove, watch, versions, pos, coords, look, degrees,
                   lsn, wire, ioVars, removed, closeSnap>>

\* ----------------------------------------------------------- Play entry
JoinSeq == <<"JoinGame", "PlayerPosition", "ServerDifficulty",
             "Chunk", "Chunk", "Chunk", "Chunk">>

\* writeJoinGame, writePlayerPosition, writeServerDifficulty, 4 writeChunk
JoinWrite(s) ==
    /\ pc[H(s)] = "join"
    /\ IF ConnOk(s)
       THEN /\ out' = Deliver(s, {Pkt(JoinSeq[loc[H(s)].joinIdx], s,
                                      loc[H(s)].joinIdx)})
            /\ IF loc[H(s)].joinIdx = Len(JoinSeq)
               THEN /\ Goto(H(s), "pi_range")
                    /\ loc' = [loc EXCEPT ![H(s)].joinIdx = 0]
               ELSE /\ loc' = [loc EXCEPT ![H(s)].joinIdx = @ + 1]
                    /\ UNCHANGED pc
       ELSE /\ CallRemoveExit(H(s), s)
            /\ UNCHANGED out
    /\ UNCHANGED <<players, counter, listening, conn, isDeleted, username, hs,
                   nChat, nMove, watch, versions, pos, coords, look, degrees,
                   lsn, wire, ioVars, removed, closeSnap>>

\* broadcastPlayerInfo: the Range over the clients begins
PlayerInfoBegin(s) ==
    /\ pc[H(s)] = "pi_range"
    /\ IF Keys = {}
       THEN /\ Goto(H(s), "chat_range")
            /\ UNCHANGED loc
       ELSE /\ Goto(H(s), "pi_send")
            /\ loc' = [loc EXCEPT ![H(s)].iter = Keys]
    /\ UNCHANGED <<players, counter, listening, conn, isDeleted, username, out,
                   hs, nChat, nMove, watch, versions, pos, coords, look,
                   degrees, lsn, wire, ioVars, removed, closeSnap>>

\* one client of the Range: PlayerInfo(add), write errors ignored
PlayerInfoSend(s) ==
    /\ pc[H(s)] = "pi_send"
    /\ \E k \in loc[H(s)].iter :
         /\ out' = IF players[k] = NoPlayer THEN out
                   ELSE Deliver(players[k], {Pkt("PlayerInfoAdd", s, 0)})
         /\ loc' = [loc EXCEPT ![H(s)].iter = loc[H(s)].iter \ {k}]
         /\ IF loc[H(s)].iter = {k}
            THEN Goto(H(s), "chat_range")
            ELSE UNCHANGED pc
    /\ UNCHANGED <<players, counter, listening, conn, isDeleted, username, hs,
                   nChat, nMove, watch, versions, pos, coords, look, degrees,
                   lsn, wire, ioVars, removed, closeSnap>>

\* -------------------------------------------------- broadcastChatMessage
\* where the caller goes on after broadcastChatMessage
ChatAfter(t) == IF t \in Handlers THEN "sp_range" ELSE "rd_loop"

ChatDone(t) ==
    /\ Goto(t, ChatAfter(t))
    /\ loc' = [loc EXCEPT ![t].iter = {}, ![t].snap = {}, ![t].msg = NoPkt]

\* the Range over the clients begins; newPlayer broadcasts "<name> joined
\* the server", handlePacket the message it has read
ChatBegin(t) ==
    /\ pc[t] = "chat_range"
    /\ IF Keys = {}
       THEN ChatDone(t)
       ELSE /\ Goto(t, "chat_send")
            /\ loc' = [loc EXCEPT
                   ![t].iter = Keys,
                   ![t].snap = Registered,
                   ![t].msg = IF t \in Handlers
                              THEN Pkt("Chat", Owner(t), 0) ELSE @]
    /\ UNCHANGED <<players, counter, listening, conn, isDeleted, username, out,
                   hs, nChat, nMove, watch, versions, pos, coords, look,
                   degrees, lsn, wire, ioVars, removed, closeSnap>>

\* one client of the Range: writeChatMessage, and on a write error
\* removePlayerAndExit(player, err) in the goroutine that broadcasts
ChatSend(t) ==
    /\ pc[t] = "chat_send"
    /\ \E k \in loc[t].iter :
         IF players[k] # NoPlayer /\ ~ConnOk(players[k])
         THEN /\ pc' = [pc EXCEPT ![t] = "rm_close"]
              /\ loc' = [loc EXCEPT ![t].iter = loc[t].iter \ {k},
                                    ![t].target = players[k],
                                    ![t].ret = "goexit"]
              /\ UNCHANGED out
         ELSE /\ out' = IF players[k] = NoPlayer THEN out
                        ELSE Deliver(players[k], {loc[t].msg})
              /\ IF loc[t].iter = {k}
                 THEN ChatDone(t)
                 ELSE /\ loc' = [loc EXCEPT ![t].iter = loc[t].iter \ {k}]
                      /\ UNCHANGED pc
    /\ UNCHANGED <<players, counter, listening, conn, isDeleted, username, hs,
                   nChat, nMove, watch, versions, pos, coords, look, degrees,
                   lsn, wire, ioVars, removed, closeSnap>>

\* --------------------------------------------------- broadcastSpawnPlayer
\* Spawn Player and Entity Look for each of the other players
SpawnPkts(others) ==
    UNION {{Pkt("SpawnPlayer", o, 0), Pkt("EntityLook", o, 0)} : o \in others}

\* the outer Range over the clients begins
SpawnBegin(s) ==
    /\ pc[H(s)] = "sp_range"
    /\ IF Keys = {}
       THEN /\ Goto(H(s), "go")
            /\ UNCHANGED loc
       ELSE /\ Goto(H(s), "sp_send")
            /\ loc' = [loc EXCEPT ![H(s)].iter = Keys]
    /\ UNCHANGED <<players, counter, listening, conn, isDeleted, username, out,
                   hs, nChat, nMove, watch, versions, pos, coords, look,
                   degrees, lsn, wire, ioVars, removed, closeSnap>>

\* one client of the outer Range: the inner Range over the other players,
\* write errors ignored
SpawnSend(s) ==
    /\ pc[H(s)] = "sp_send"
    /\ \E k \in loc[H(s)].iter :
         /\ out' = IF players[k] = NoPlayer THEN out
                   ELSE Deliver(players[k],
                                SpawnPkts(Registered \ {players[k]}))
         /\ loc' = [loc EXCEPT ![H(s)].iter = loc[H(s)].iter \ {k}]
         /\ IF loc[H(s)].iter = {k}
            THEN Goto(H(s), "go")
            ELSE UNCHANGED pc
    /\ UNCHANGED <<players, counter, listening, conn, isDeleted, username, hs,
                   nChat, nMove, watch, versions, pos, coords, look, degrees,
                   lsn, wire, ioVars, removed, closeSnap>>

\* the same broadcast write by write, each write recorded on the wire of
\* its client. One client of the outer Range: the inner Range begins
SpawnClient(s) ==
    /\ pc[H(s)] = "sp_send"
    /\ \E k \in loc[H(s)].iter :
         /\ players[k] # NoPlayer
         /\ loc' = [loc EXCEPT ![H(s)].iter = loc[H(s)].iter \ {k},
                               ![H(s)].rcpt = players[k],
                               ![H(s)].inner = Keys]
    /\ Goto(H(s), "sp_inner")
    /\ UNCHANGED <<players, counter, listening, conn, isDeleted, username, out,
                   hs, nChat, nMove, watch, versions, pos, coords, look,
                   degrees, lsn, wire, ioVars, removed, closeSnap>>

\* Packet.Pack on the connection of currentPlayer, its error ignored
SpawnWrite(s, pkt) ==
    LET rcpt == loc[H(s)].rcpt
    IN  /\ out' = Deliver(rcpt, {pkt})
        /\ wire' = IF ConnOk(rcpt) /\ pkt.kind \in watch
                   THEN [wire EXCEPT ![rcpt] =
                           Append(@, [pkt |-> pkt, event |-> 0,
                                      pose |-> Pose(pkt)])]
                   ELSE wire

\* the callbacks return true: the inner Range goes on with the keys in left,
\* then the outer one with the next client, then broadcastSpawnPlayer returns
SpawnNext(s, left) ==
    /\ pc' = [pc EXCEPT ![H(s)] =
                IF left # {} THEN "sp_inner"
                ELSE IF loc[H(s)].iter # {} THEN "sp_send" ELSE "go"]
    /\ loc' = [loc EXCEPT ![H(s)].inner = left,
                          ![H(s)].msg = NoPkt,
                          ![H(s)].rcpt = IF left = {} THEN NoPlayer ELSE @]

\* one player of the inner Range: a player with another id is written to
\* currentPlayer with writeSpawnPlayer
SpawnOtherTo(s, skipped) ==
    /\ pc[H(s)] = "sp_inner"
    /\ \E j \in loc[H(s)].inner :
         IF players[j] \in skipped
         THEN /\ SpawnNext(s, loc[H(s)].inner \ {j})
              /\ UNCHANGED <<out, wire>>
         ELSE /\ SpawnWrite(s, Pkt("SpawnPlayer", players[j], 0))
              /\ Goto(H(s), "sp_look")
              /\ loc' = [loc EXCEPT
                           ![H(s)].inner = loc[H(s)].inner \ {j},
                           ![H(s)].msg = Pkt("EntityLook", players[j], 0)]
    /\ UNCHANGED <<players, counter, listening, conn, isDeleted, username, hs,
                   nChat, nMove, watch, versions, pos, coords, look, degrees,
                   lsn, ioVars, removed, closeSnap>>

SpawnOtherToAll(s) == SpawnOtherTo(s, {NoPlayer})

SpawnOther(s) == SpawnOtherTo(s, {NoPlayer, loc[H(s)].rcpt})

\* writeEntityLook for the same player
SpawnLook(s) ==
    /\ pc[H(s)] = "sp_look"
    /\ SpawnWrite(s, loc[H(s)].msg)
    /\ SpawnNext(s, loc[H(s)].inner)
    /\ UNCHANGED <<players, counter, listening, conn, isDeleted, username, hs,
                   nChat, nMove, watch, versions, pos, coords, look, degrees,
                   lsn, ioVars, removed, closeSnap>>

\* go s.handlePacket(&current); go s.keepAliveUser(&current); return
StartTasks(s) ==
    /\ pc[H(s)] = "go"
    /\ pc' = [pc EXCEPT ![H(s)] = "returned",
                        ![R(s)] = "rd_loop",
                        ![K(s)] = "ka_send"]
    /\ loc' = [loc EXCEPT ![H(s)] = NoLoc]
    /\ UNCHANGED <<players, counter, listening, conn, isDeleted, username, out,
                   hs, nChat, nMove, watch, versions, pos, coords, look,
                   degrees, lsn, wire, ioVars, removed, closeSnap>>

\* ---------------------------------------------------------- handlePacket
\* for !p.isDeleted
ReaderLoop(s) ==
    /\ pc[R(s)] = "rd_loop"
    /\ \E deleted \in ReadIsDeleted(s) :
         IF deleted
         THEN Finish(R(s), "returned")
         ELSE /\ Goto(R(s), "rd_read")
              /\ UNCHANGED loc
    /\ UNCHANGED <<players, counter, listening, conn, isDeleted, username, out,
                   hs, nChat, nMove, watch, versions, pos, coords, look,
                   degrees, lsn, wire, ioVars, removed, closeSnap>>

\* getNextPacket returns an error and the loop calls removePlayer without
\* leaving
ReadErrorGoesOn(s) ==
    /\ pc[R(s)] = "rd_read"
    /\ ~ConnOk(s)
    /\ Goto(R(s), "rm_close")
    /\ loc' = [loc EXCEPT ![R(s)].target = s, ![R(s)].ret = "rd_loop"]
    /\ UNCHANGED <<players, counter, listening, conn, isDeleted, username, out,
                   hs, nChat, nMove, watch, versions, pos, coords, look,
                   degrees, lsn, wire, ioVars, removed, closeSnap>>

\* getNextPacket returns an error
ReadError(s) ==
    /\ pc[R(s)] = "rd_read"
    /\ ~ConnOk(s)
    /\ CallRemoveExit(R(s), s)
    /\ UNCHANGED <<players, counter, listening, conn, isDeleted, username, out,
                   hs, nChat, nMove, watch, versions, pos, coords, look,
                   degrees, lsn, wire, ioVars, removed, closeSnap>>

\* a Chat packet (0x03): read the message and broadcast it; a message that
\* cannot be read removes the player
ReadChat(s) ==
    /\ pc[R(s)] = "rd_read"
    /\ ConnOk(s)
    /\ nChat < MaxChat
    /\ nChat' = nChat + 1
    /\ \E wellFormed \in BOOLEAN :
         IF wellFormed
         THEN /\ loc' = [loc EXCEPT ![R(s)].msg = Pkt("Chat", s, nChat + 1)]
              /\ Goto(R(s), "chat_range")
         ELSE CallRemoveExit(R(s), s)
    /\ UNCHANGED <<players, counter, listening, conn, isDeleted, username, out,
                   hs, nMove, watch, versions, pos, coords, look, degrees, lsn,
                   wire, ioVars, removed, closeSnap>>

\* Teleport Confirm, Keep Alive response or an unmanaged id: nothing to do
ReadIgnored(s) ==
    /\ pc[R(s)] = "rd_read"
    /\ ConnOk(s)
    /\ Goto(R(s), "rd_loop")
    /\ UNCHANGED <<players, counter, listening, conn, isDeleted, username, out,
                   loc, hs, nChat, nMove, watch, versions, pos, coords, look,
                   degrees, lsn, wire, ioVars, removed, closeSnap>>

\* the same read with the packet kept in the packet variable of the loop:
\* Teleport Confirm (0x00), Keep Alive (0x10), and ids handlePacket has no
\* case for, which it prints as unmanaged
IgnoredIDs == {0, 16, 42}

ReadUnmanagedAsMove(s) ==
    /\ pc[R(s)] = "rd_read"
    /\ ConnOk(s)
    /\ \E id \in IgnoredIDs :
         loc' = [loc EXCEPT ![R(s)].msg = Pkt("Ignored", s, id)]
    /\ Goto(R(s), "mv_range")
    /\ UNCHANGED <<players, counter, listening, conn, isDeleted, username, out,
                   hs, nChat, nMove, watch, versions, pos, coords, look,
                   degrees, lsn, wire, ioVars, removed, closeSnap>>

ReadUnmanaged(s) ==
    /\ pc[R(s)] = "rd_read"
    /\ ConnOk(s)
    /\ \E id \in IgnoredIDs :
         loc' = [loc EXCEPT ![R(s)].msg = Pkt("Ignored", s, id)]
    /\ Goto(R(s), "rd_loop")
    /\ UNCHANGED <<players, counter, listening, conn, isDeleted, username, out,
                   hs, nChat, nMove, watch, versions, pos, coords, look,
                   degrees, lsn, wire, ioVars, removed, closeSnap>>

\* ------------------------------------------------- movement broadcasts
\* the inbound packets that are broadcast to the other players: Player
\* Position and Player Position And Rotation (handled alike: the position
\* is stored, the view updated, broadcastPlayerPosAndLook called), Rotation,
\* Entity Action with its action id, Animation with its animation id
Moves(s) ==
    {Pkt("Position", s, 0), Pkt("Rotation", s, 0), Pkt("Animation", s, 0),
     Pkt("EntityAction", s, 0), Pkt("EntityAction", s, 2)}

\* what the broadcast of an inbound packet writes to one other player, in
\* the order of the writes: writeEntityTeleport/writeEntityRotation and then
\* writeEntityLook, writeEntityAction (nothing for an action other than 0,
\* 1, 3, 4), writeEntityAnimation
MoveWritesLookFirst(move) ==
    CASE move.kind = "Position" ->
           <<Pkt("EntityLook", move.about, 0),
             Pkt("EntityTeleport", move.about, 0)>>
      [] move.kind = "Rotation" ->
           <<Pkt("EntityLook", move.about, 0),
             Pkt("EntityRotation", move.about, 0)>>
      [] move.kind = "EntityAction" ->
           IF move.n \in {0, 1, 3, 4}
           THEN <<Pkt("EntityMetadata", move.about, move.n)>> ELSE <<>>
      [] move.kind = "Animation" ->
           <<Pkt("EntityAnimation", move.about, move.n)>>
      [] OTHER -> <<>>

MoveWrites(move) ==
    CASE move.kind = "Position" ->
           <<Pkt("EntityTeleport", move.about, 0),
             Pkt("EntityLook", move.about, 0)>>
      [] move.kind = "Rotation" ->
           <<Pkt("EntityRotation", move.about, 0),
             Pkt("EntityLook", move.about, 0)>>
      [] move.kind = "EntityAction" ->
           IF move.n \in {0, 1, 3, 4}
           THEN <<Pkt("EntityMetadata", move.about, move.n)>> ELSE <<>>
      [] move.kind = "Animation" ->
           <<Pkt("EntityAnimation", move.about, move.n)>>
      [] OTHER -> <<>>

MovePkts(move) == {MoveWrites(move)[i] : i \in 1..Len(MoveWrites(move))}

\* the chunk a block coordinate lies in
coordinateToChunk(c) == c \div 16

\* "Update player chunk view if chunk has changed": the test handlePacket
\* makes on the old and the new x and z of the player
ViewChanged(old, new) ==
    \/ new[2] # old[2]
    \/ coordinateToChunk(new[1]) # coordinateToChunk(old[1])

\* the angles a movement leaves: Player Position has none, Player Position
\* And Look and Player Rotation bring yawAbs and pitchAbs
LooksAfter(l, move) ==
    CASE move.kind = "Position" ->
           {l} \cup {Looked(l, a, b) : a \in degrees, b \in degrees}
      [] move.kind = "Rotation" ->
           {Looked(l, a, b) : a \in degrees, b \in degrees}
      [] OTHER -> {l}

\* the same handler statement by statement, for Player Rotation: yawAbs
\* and pitchAbs are read from the packet (a pitchAbs that cannot be read
\* removes the player after yawAbs was stored)
ReadLook(s) ==
    /\ pc[R(s)] = "rd_read"
    /\ ConnOk(s)
    /\ nMove < MaxMove
    /\ nMove' = nMove + 1
    /\ \E a \in degrees, b \in degrees, wellFormed \in BOOLEAN :
         IF wellFormed
         THEN /\ look' = [look EXCEPT ![s].yawAbs = a, ![s].pitchAbs = b,
                                      ![s].read = @ \cup {<<a, b>>}]
              /\ loc' = [loc EXCEPT ![R(s)].msg = Pkt("Rotation", s, 0),
                                    ![R(s)].event = nMove + 1]
              /\ Goto(R(s), "lk_yaw")
         ELSE /\ look' = [look EXCEPT ![s].yawAbs = a]
              /\ CallRemoveExit(R(s), s)
    /\ UNCHANGED <<players, counter, listening, conn, isDeleted, username, out,
                   hs, nChat, watch, versions, pos, coords, degrees, lsn, wire,
                   ioVars, removed, closeSnap>>

\* p.yaw = p.yawAbs.toAngle()
LookYaw(s) ==
    /\ pc[R(s)] = "lk_yaw"
    /\ look' = [look EXCEPT ![s].yaw = toAngle(look[s].yawAbs)]
    /\ Goto(R(s), "lk_pitch")
    /\ UNCHANGED <<players, counter, listening, conn, isDeleted, username, out,
                   loc, hs, nChat, nMove, watch, versions, pos, coords,
                   degrees, lsn, wire, ioVars, removed, closeSnap>>

\* p.pitch = p.pitchAbs.toAngle(), and the broadcast begins
LookPitch(s) ==
    /\ pc[R(s)] = "lk_pitch"
    /\ look' = [look EXCEPT ![s].pitch = toAngle(look[s].pitchAbs)]
    /\ Goto(R(s), "mv_range")
    /\ UNCHANGED <<players, counter, listening, conn, isDeleted, username, out,
                   loc, hs, nChat, nMove, watch, versions, pos, coords,
                   degrees, lsn, wire, ioVars, removed, closeSnap>>

\* handlePacket reads one of these packets and parses its fields; a field
\* that cannot be read removes the player; a position is stored in p.x and
\* p.z, and a change of view is sent to the player before the broadcast
ReadMove(s) ==
    /\ pc[R(s)] = "rd_read"
    /\ ConnOk(s)
    /\ nMove < MaxMove
    /\ nMove' = nMove + 1
    /\ \E move \in Moves(s), wellFormed \in BOOLEAN :
         \E new \in IF wellFormed /\ move.kind = "Position"
                    THEN coords ELSE {pos[s]} :
           /\ pos' = [pos EXCEPT ![s] = new]
           /\ \E l \in IF wellFormed THEN LooksAfter(look[s], move)
                         ELSE {look[s]} :
                look' = [look EXCEPT ![s] = l]
           /\ IF wellFormed
              THEN /\ loc' = [loc EXCEPT ![R(s)].msg = move,
                                         ![R(s)].event = nMove + 1]
                   /\ Goto(R(s), IF ViewChanged(pos[s], new)
                                 THEN "mv_view" ELSE "mv_range")
              ELSE CallRemoveExit(R(s), s)
    /\ UNCHANGED <<players, counter, listening, conn, isDeleted, username, out,
                   hs, nChat, watch, versions, coords, degrees, lsn, wire,
                   ioVars, removed, closeSnap>>

\* p.updateViewPosition(): Update View Position to the player itself; a
\* write error removes the player
MoveView(s) ==
    /\ pc[R(s)] = "mv_view"
    /\ IF ConnOk(s)
       THEN /\ out' = Deliver(s, {Pkt("UpdateView", s, 0)})
            /\ Goto(R(s), "mv_range")
            /\ UNCHANGED loc
       ELSE /\ CallRemoveExit(R(s), s)
            /\ UNCHANGED out
    /\ UNCHANGED <<players, counter, listening, conn, isDeleted, username, hs,
                   nChat, nMove, watch, versions, pos, coords, look, degrees,
                   lsn, wire, ioVars, removed, closeSnap>>

\* the broadcast returns to the loop of handlePacket
MoveDone(s) ==
    /\ Goto(R(s), "rd_loop")
    /\ loc' = [loc EXCEPT ![R(s)].iter = {}, ![R(s)].snap = {},
                           ![R(s)].msg = NoPkt, ![R(s)].event = 0,
                           ![R(s)].rcpt = NoPlayer]

\* the Range over the clients begins
MoveBegin(s) ==
    /\ pc[R(s)] = "mv_range"
    /\ IF Keys = {}
       THEN MoveDone(s)
       ELSE /\ Goto(R(s), "mv_send")
            /\ loc' = [loc EXCEPT ![R(s)].iter = Keys,
                                  ![R(s)].snap = Registered]
    /\ UNCHANGED <<players, counter, listening, conn, isDeleted, username, out,
                   hs, nChat, nMove, watch, versions, pos, coords, look,
                   degrees, lsn, wire, ioVars, removed, closeSnap>>

\* the i-th write of the Range callback on the connection of rcpt, its
\* error ignored
MoveWrite(s, rcpt, i) ==
    LET pkt == MoveWrites(loc[R(s)].msg)[i]
    IN  /\ out' = Deliver(rcpt, {pkt})
        /\ wire' = IF ConnOk(rcpt) /\ pkt.kind \in watch
                   THEN [wire EXCEPT ![rcpt] =
                           Append(@, [pkt |-> pkt,
                                      event |-> loc[R(s)].event,
                                      pose |-> Pose(pkt)])]
                   ELSE wire

\* the callback returns true: the Range goes on to the clients in left
MoveNext(s, left) ==
    IF left = {}
    THEN MoveDone(s)
    ELSE /\ Goto(R(s), "mv_send")
         /\ loc' = [loc EXCEPT ![R(s)].iter = left, ![R(s)].rcpt = NoPlayer]

\* one client of the Range: a player with another entity id is sent the
\* first packet (the entity ids of two players differ); on a connection
\* that has failed the second write fails as the first did
MoveSendTo(s, skipped) ==
    /\ pc[R(s)] = "mv_send"
    /\ \E k \in loc[R(s)].iter :
         LET left == loc[R(s)].iter \ {k}
             writes == MoveWrites(loc[R(s)].msg)
         IN  IF players[k] \in skipped \/ writes = <<>>
             THEN /\ MoveNext(s, left)
                  /\ UNCHANGED <<out, wire>>
             ELSE /\ MoveWrite(s, players[k], 1)
                  /\ IF Len(writes) = 1 \/ ~ConnOk(players[k])
                     THEN MoveNext(s, left)
                     ELSE /\ Goto(R(s), "mv_look")
                          /\ loc' = [loc EXCEPT ![R(s)].iter = left,
                                                ![R(s)].rcpt = players[k]]
    /\ UNCHANGED <<players, counter, listening, conn, isDeleted, username, hs,
                   nChat, nMove, watch, versions, pos, coords, look, degrees,
                   lsn, ioVars, removed, closeSnap>>

MoveSendToAll(s) == MoveSendTo(s, {NoPlayer})

MoveSend(s) == MoveSendTo(s, {NoPlayer, s})

\* the second packet of the callback, writeEntityLook, to the same player
MoveLook(s) ==
    /\ pc[R(s)] = "mv_look"
    /\ MoveWrite(s, loc[R(s)].rcpt, 2)
    /\ MoveNext(s, loc[R(s)].iter)
    /\ UNCHANGED <<players, counter, listening, conn, isDeleted, username, hs,
                   nChat, nMove, watch, versions, pos, coords, look, degrees,
                   lsn, ioVars, removed, closeSnap>>

\* --------------------------------------------------------- keepAliveUser
KeepAlives(s) == {p \in out[s] : p.kind = "KeepAlive"}

\* the Pack succeeds; the loop sleeps 18 seconds
KeepAliveOk(s) ==
    /\ pc[K(s)] = "ka_send"
    /\ ConnOk(s)
    /\ Cardinality(KeepAlives(s)) < MaxKeepAlive
    /\ out' = Deliver(s, {Pkt("KeepAlive", s, Cardinality(KeepAlives(s)) + 1)})
    /\ UNCHANGED <<players, counter, listening, conn, isDeleted, username, pc,
                   loc, hs, nChat, nMove, watch, versions, pos, coords, look,
                   degrees, lsn, wire, ioVars, removed, closeSnap>>

\* the Pack fails and the loop calls removePlayer without leaving
KeepAliveFailGoesOn(s) ==
    /\ pc[K(s)] = "ka_send"
    /\ ~ConnOk(s)
    /\ \E deleted \in ReadIsDeleted(s) :
         IF deleted
         THEN Finish(K(s), "returned")
         ELSE /\ Goto(K(s), "rm_close")
              /\ loc' = [loc EXCEPT ![K(s)].target = s,
                                    ![K(s)].ret = "ka_send"]
    /\ UNCHANGED <<players, counter, listening, conn, isDeleted, username, out,
                   hs, nChat, nMove, watch, versions, pos, coords, look,
                   degrees, lsn, wire, ioVars, removed, closeSnap>>

\* the Pack fails: break if the player has been deleted, else remove it
KeepAliveFail(s) ==
    /\ pc[K(s)] = "ka_send"
    /\ ~ConnOk(s)
    /\ \E deleted \in ReadIsDeleted(s) :
         IF deleted
         THEN Finish(K(s), "returned")
         ELSE CallRemoveExit(K(s), s)
    /\ UNCHANGED <<players, counter, listening, conn, isDeleted, username, out,
                   hs, nChat, nMove, watch, versions, pos, coords, look,
                   degrees, lsn, wire, ioVars, removed, closeSnap>>

\* ----------------------------------------------------------- Server.Close
HandlerBusy(s) == pc[H(s)] \notin {"idle", "returned", "exited"}

\* close(s.listener.portValue); the Range over the players begins
\* (Close is called while no login is in progress)
CloseBegin ==
    /\ pc[Closer] = "idle"
    /\ \A s \in Sess : ~HandlerBusy(s)
    /\ listening' = FALSE
    /\ closeSnap' = [reg |-> Registered, counter |-> counter,
                     removing |-> \E t \in Tasks : InRemove(t)]
    /\ IF Keys = {}
       THEN Finish(Closer, "returned")
       ELSE /\ Goto(Closer, "cl_visit")
            /\ loc' = [loc EXCEPT ![Closer].iter = Keys]
    /\ UNCHANGED <<players, counter, conn, isDeleted, username, out, hs, nChat,
                   nMove, watch, versions, pos, coords, look, degrees, lsn,
                   wire, ioVars, removed>>

\* one player of the Range: removePlayerAndExit(player, "server closed")
CloseVisit ==
    /\ pc[Closer] = "cl_visit"
    /\ \E k \in loc[Closer].iter :
         IF players[k] # NoPlayer
         THEN /\ pc' = [pc EXCEPT ![Closer] = "rm_close"]
              /\ loc' = [loc EXCEPT ![Closer].iter = loc[Closer].iter \ {k},
                                    ![Closer].target = players[k],
                                    ![Closer].ret = "goexit"]
         ELSE IF loc[Closer].iter = {k}
              THEN Finish(Closer, "returned")
              ELSE /\ loc' = [loc EXCEPT ![Closer].iter = loc[Closer].iter \ {k}]
                   /\ UNCHANGED pc
    /\ UNCHANGED <<players, counter, listening, conn, isDeleted, username, out,
                   hs, nChat, nMove, watch, versions, pos, coords, look,
                   degrees, lsn, wire, ioVars, removed, closeSnap>>

\* ----------------------------------------------------------- listen()
\* no goroutine has panicked: a panic ends the program
Running ==
    /\ lsn.acc # "panic"
    /\ \A c \in Callers : lsn.calls[c].pc # "panic"

\* Start: go s.listen(...), then the port is sent
StartCall ==
    /\ Running
    /\ lsn.calls[0].pc = "idle"
    /\ lsn.port = "none"
    /\ lsn' = [lsn EXCEPT !.calls[0].pc = "send",
                          !.port = "range",
                          !.acc = "loop"]
    /\ UNCHANGED <<players, counter, listening, conn, isDeleted, username, out,
                   pc, loc, hs, nChat, nMove, watch, versions, pos, coords,
                   look, degrees, wire, ioVars, removed, closeSnap>>

\* SetPort is called while the server runs
SetPortCall(c) ==
    /\ Running
    /\ c # 0
    /\ lsn.calls[c].pc = "idle"
    /\ lsn.port # "none"
    /\ lsn.portValue = "open"
    /\ lsn' = [lsn EXCEPT !.calls[c].pc = "send"]
    /\ UNCHANGED <<players, counter, listening, conn, isDeleted, username, out,
                   pc, loc, hs, nChat, nMove, watch, versions, pos, coords,
                   look, degrees, wire, ioVars, removed, closeSnap>>

\* s.listener.portValue <- port meets `for newPort := range portNumber`:
\* the channel has no buffer, the send ends when the goroutine receives
PortSendAhead(c) ==
    /\ Running
    /\ lsn.calls[c].pc = "send"
    /\ lsn.portValue = "open"
    /\ lsn.port # "none"
    /\ lsn' = [lsn EXCEPT !.calls[c].pc = "recv",
                          !.newPort = PortOf(c),
                          !.port = IF @ = "range" THEN "listen" ELSE @]
    /\ UNCHANGED <<players, counter, listening, conn, isDeleted, username, out,
                   pc, loc, hs, nChat, nMove, watch, versions, pos, coords,
                   look, degrees, wire, ioVars, removed, closeSnap>>

PortSend(c) ==
    /\ Running
    /\ lsn.calls[c].pc = "send"
    /\ lsn.portValue = "open"
    /\ lsn.port = "range"
    /\ lsn' = [lsn EXCEPT !.calls[c].pc = "recv",
                          !.newPort = PortOf(c),
                          !.port = "listen"]
    /\ UNCHANGED <<players, counter, listening, conn, isDeleted, username, out,
                   pc, loc, hs, nChat, nMove, watch, versions, pos, coords,
                   look, degrees, wire, ioVars, removed, closeSnap>>

\* a send on the closed port channel panics
PortPanic(c) ==
    /\ Running
    /\ lsn.calls[c].pc = "send"
    /\ lsn.portValue = "closed"
    /\ lsn' = [lsn EXCEPT !.calls[c].pc = "panic"]
    /\ UNCHANGED <<players, counter, listening, conn, isDeleted, username, out,
                   pc, loc, hs, nChat, nMove, watch, versions, pos, coords,
                   look, degrees, wire, ioVars, removed, closeSnap>>

\* the old listener is closed; listener, err = net.Listen("tcp", ":"+newPort)
PortListen ==
    /\ Running
    /\ lsn.port = "listen"
    /\ \E ok \in BOOLEAN :
         lsn' = [lsn EXCEPT
                   !.port = "reply",
                   !.bound = ok,
                   !.listener = IF ok THEN lsn.newPort ELSE 0,
                   !.open = (@ \ {lsn.listener})
                            \cup (IF ok THEN {lsn.newPort} ELSE {})]
    /\ UNCHANGED <<players, counter, listening, conn, isDeleted, username, out,
                   pc, loc, hs, nChat, nMove, watch, versions, pos, coords,
                   look, degrees, wire, ioVars, removed, closeSnap>>

\* errChannel <- err meets the `<-s.listener.err` of a call
ErrSend ==
    /\ Running
    /\ lsn.port = "reply"
    /\ \E c \in Callers :
         /\ lsn.calls[c].pc = "recv"
         /\ lsn' = [lsn EXCEPT
                      !.port = "range",
                      !.calls[c] = [pc |-> "returned",
                                    reply |-> [port |-> lsn.newPort,
                                               ok |-> lsn.bound]]]
    /\ UNCHANGED <<players, counter, listening, conn, isDeleted, username, out,
                   pc, loc, hs, nChat, nMove, watch, versions, pos, coords,
                   look, degrees, wire, ioVars, removed, closeSnap>>

\* Close, on a server that Start has started: close(s.listener.portValue);
\* the Range finds no player here
CloseCall ==
    /\ Running
    /\ lsn.calls[0].pc = "returned"
    /\ lsn.portValue = "open"
    /\ Registered = {}
    /\ lsn' = [lsn EXCEPT !.portValue = "closed"]
    /\ UNCHANGED <<players, counter, listening, conn, isDeleted, username, out,
                   pc, loc, hs, nChat, nMove, watch, versions, pos, coords,
                   look, degrees, wire, ioVars, removed, closeSnap>>

\* the range over the closed port channel ends: close(errChannel),
\* isListening = false
PortClosed ==
    /\ Running
    /\ lsn.port = "range"
    /\ lsn.portValue = "closed"
    /\ lsn' = [lsn EXCEPT !.port = "closed", !.isListening = FALSE]
    /\ UNCHANGED <<players, counter, listening, conn, isDeleted, username, out,
                   pc, loc, hs, nChat, nMove, watch, versions, pos, coords,
                   look, degrees, wire, ioVars, removed, closeSnap>>

\* isListening is read without synchronisation: the loop may see the value
\* the other goroutine wrote, or still true
ReadIsListening == IF lsn.isListening THEN {TRUE} ELSE {TRUE, FALSE}

\* for isListening { if listener != nil { listener.Accept() ... } }
AccLoop ==
    /\ Running
    /\ lsn.acc = "loop"
    /\ \E seen \in ReadIsListening :
         lsn' = [lsn EXCEPT
                   !.acc = IF ~seen THEN "close"
                           ELSE IF lsn.listener # 0 THEN "accept" ELSE @,
                   !.on = IF seen THEN lsn.listener ELSE @]
    /\ UNCHANGED <<players, counter, listening, conn, isDeleted, username, out,
                   pc, loc, hs, nChat, nMove, watch, versions, pos, coords,
                   look, degrees, wire, ioVars, removed, closeSnap>>

\* a client connects to the listener Accept blocks on: go s.newPlayer(conn)
AccConnect(s) ==
    /\ Running
    /\ lsn.acc = "accept"
    /\ lsn.on \in lsn.open
    /\ pc[H(s)] = "idle"
    /\ \A r \in Sess : r < s => conn[r] # "none"
    /\ conn' = [conn EXCEPT ![s] = "open"]
    /\ Goto(H(s), "hs_read")
    /\ lsn' = [lsn EXCEPT
                 !.acc = "loop",
                 !.late = IF lsn.portValue = "closed" THEN @ \cup {s} ELSE @]
    /\ UNCHANGED <<players, counter, listening, isDeleted, username, out, loc,
                   hs, nChat, nMove, watch, versions, pos, coords, look,
                   degrees, wire, ioVars, removed, closeSnap>>

\* Accept on a listener that was closed returns an error: the loop goes on
AccError ==
    /\ Running
    /\ lsn.acc = "accept"
    /\ lsn.on \notin lsn.open
    /\ lsn' = [lsn EXCEPT !.acc = "loop"]
    /\ UNCHANGED <<players, counter, listening, conn, isDeleted, username, out,
                   pc, loc, hs, nChat, nMove, watch, versions, pos, coords,
                   look, degrees, wire, ioVars, removed, closeSnap>>

\* _ = listener.Close() after the loop; a nil listener panics
AccClose ==
    /\ Running
    /\ lsn.acc = "close"
    /\ lsn' = [lsn EXCEPT
                 !.acc = IF lsn.listener = 0 THEN "panic" ELSE "done",
                 !.open = @ \ {lsn.listener}]
    /\ UNCHANGED <<players, counter, listening, conn, isDeleted, username, out,
                   pc, loc, hs, nChat, nMove, watch, versions, pos, coords,
                   look, degrees, wire, ioVars, removed, closeSnap>>

\* ------------------------------------------------------------ the system
CoreStep ==
    \/ \E s \in Sess : Accept(s)
    \/ \E s \in Sess : Break(s)
    \/ \E s \in Sess : Handshake(s)
    \/ \E s \in Sess : StatusRequest(s)
    \/ \E s \in Sess : StatusResponse(s)
    \/ \E s \in Sess : StatusPing(s)
    \/ \E s \in Sess : StatusPong(s)
    \/ \E s \in Sess : LoginStart(s)
    \/ \E s \in Sess : LoginSuccess(s)
    \/ \E s \in Sess : AddLoad(s)
    \/ \E s \in Sess : AddIncrement(s)
    \/ \E s \in Sess : AddStore(s)
    \/ \E t \in Tasks : RemoveClose(t)
    \/ \E t \in Tasks : RemoveDelete(t)
    \/ \E t \in Tasks : RemoveDecrement(t)
    \/ \E t \in Tasks : RemoveNotify(t)
    \/ \E t \in Tasks : RemoveDestroy(t)
    \/ \E s \in Sess : JoinWrite(s)
    \/ \E s \in Sess : PlayerInfoBegin(s)
    \/ \E s \in Sess : PlayerInfoSend(s)
    \/ \E t \in Tasks : ChatBegin(t)
    \/ \E t \in Tasks : ChatSend(t)
    \/ \E s \in Sess : SpawnBegin(s)
    \/ \E s \in Sess : SpawnSend(s)
    \/ \E s \in Sess : StartTasks(s)
    \/ \E s \in Sess : ReaderLoop(s)
    \/ \E s \in Sess : ReadError(s)
    \/ \E s \in Sess : ReadIgnored(s)
    \/ \E s \in Sess : KeepAliveOk(s)
    \/ \E s \in Sess : KeepAliveFail(s)

Next ==
    \/ CoreStep
    \/ \E s \in Sess : ReadChat(s)

Spec == Init /\ [][Next]_vars

\* the sessions, whose only chat message is the one of the join, and a call
\* of Server.Close
NextClose ==
    \/ CoreStep
    \/ CloseBegin
    \/ CloseVisit

InitClose == InitWatching({})

SpecClose == InitClose /\ [][NextClose]_vars

\* the sessions of clients that speak protocol 754, with the packets of the
\* status exchange, of the Play entry and of a removal recorded
PlayKinds == {"StatusResponse", "Pong", "LoginSuccess", "JoinGame",
              "PlayerPosition", "ServerDifficulty", "Chunk", "PlayerInfoAdd",
              "Chat", "PlayerInfoRemove", "DestroyEntities"}

NextPlay == CoreStep

InitPlay == InitWith(PlayKinds, {minecraftProtocol})

SpecPlay == InitPlay /\ [][NextPlay]_vars

\* two players in Play, with the packets of the movement broadcasts
\* recorded: newPlayer has returned for both, their readers and keep-alive
\* loops run, and each has been sent the Entity Look of the other's spawn
MoveKinds == {"EntityTeleport", "EntityLook", "EntityRotation",
              "EntityMetadata", "EntityAnimation"}

\* the positions the clients move to: within the chunk of the spawn point
\* along z, and into the next chunk along x and along z
MoveTargets == {Spawn, <<0, 8>>, <<-1, 0>>, <<0, 16>>}

\* the sessions that log in under a username of their own
Named == {s \in Sess : s <= 2}

NextMove ==
    \/ \E s \in Sess : Break(s)
    \/ \E t \in Tasks : RemoveClose(t)
    \/ \E t \in Tasks : RemoveDelete(t)
    \/ \E t \in Tasks : RemoveDecrement(t)
    \/ \E t \in Tasks : RemoveNotify(t)
    \/ \E t \in Tasks : RemoveDestroy(t)
    \/ \E s \in Sess : ReaderLoop(s)
    \/ \E s \in Sess : ReadError(s)
    \/ \E s \in Sess : ReadUnmanaged(s)
    \/ \E s \in Sess : ReadMove(s)
    \/ \E s \in Sess : MoveView(s)
    \/ \E s \in Sess : MoveBegin(s)
    \/ \E s \in Sess : MoveSend(s)
    \/ \E s \in Sess : MoveLook(s)

InitMove ==
    /\ watch = MoveKinds \cup {"UpdateView"}
    /\ versions = {minecraftProtocol}
    /\ coords = MoveTargets
    /\ pos = [s \in Sess |-> Spawn]
    /\ look = [s \in Sess |-> NoLook]
    /\ degrees = {0}
    /\ lsn = NoListen
    /\ wire = [s \in Sess |-> <<>>]
    /\ players = [u \in Usernames |-> IF u = "" THEN 1 ELSE 2]
    /\ counter = 2
    /\ listening = TRUE
    /\ conn = [s \in Sess |-> IF s \in Named THEN "open" ELSE "none"]
    /\ isDeleted = [s \in Sess |-> FALSE]
    /\ username = [s \in Sess |-> IF s = 2 THEN "bob" ELSE ""]
    /\ out = [s \in Sess |->
                IF s \in Named
                THEN {Pkt("EntityLook", r, 0) : r \in Named \ {s}} ELSE {}]
    /\ pc = [t \in Tasks |->
               IF t = Closer \/ Owner(t) \notin Named THEN "idle"
               ELSE IF t \in Handlers THEN "returned"
               ELSE IF t = R(Owner(t)) THEN "rd_loop" ELSE "ka_send"]
    /\ loc = [t \in Tasks |-> NoLoc]
    /\ hs = [s \in Sess |-> NoHandshake]
    /\ nChat = 0
    /\ nMove = 0
    /\ removed = {}
    /\ closeSnap = [reg |-> {}, counter |-> 0, removing |-> FALSE]
    /\ IdleIO

SpecMove == InitMove /\ [][NextMove]_vars

\* addPlayer called in parallel for players with usernames of their own,
\* and removePlayer called for each of them once every addPlayer has
\* returned: the handlers have written Login Success and stand before
\* addPlayer; a connection may fail at any time
InAddPlayer == {"add_load", "add_incr", "add_store"}

RemoveAdded(s) ==
    /\ pc[H(s)] = "join"
    /\ \A r \in Named : pc[H(r)] \notin InAddPlayer
    /\ CallRemoveExit(H(s), s)
    /\ UNCHANGED <<players, counter, listening, conn, isDeleted, username, out,
                   hs, nChat, nMove, watch, versions, pos, coords, look,
                   degrees, lsn, wire, ioVars, removed, closeSnap>>

NextAddRemove ==
    \/ \E s \in Sess : Break(s)
    \/ \E s \in Sess : AddLoad(s)
    \/ \E s \in Sess : AddIncrement(s)
    \/ \E s \in Sess : AddStore(s)
    \/ \E s \in Sess : RemoveAdded(s)
    \/ \E t \in Tasks : RemoveClose(t)
    \/ \E t \in Tasks : RemoveDelete(t)
    \/ \E t \in Tasks : RemoveDecrement(t)
    \/ \E t \in Tasks : RemoveNotify(t)
    \/ \E t \in Tasks : RemoveDestroy(t)

InitAddRemove ==
    /\ watch = {"PlayerInfoRemove", "DestroyEntities"}
    /\ versions = {minecraftProtocol}
    /\ coords = {Spawn}
    /\ pos = [s \in Sess |-> Spawn]
    /\ look = [s \in Sess |-> NoLook]
    /\ degrees = {0}
    /\ lsn = NoListen
    /\ wire = [s \in Sess |-> <<>>]
    /\ players = [u \in Usernames |-> NoPlayer]
    /\ counter = 0
    /\ listening = TRUE
    /\ conn = [s \in Sess |-> IF s \in Named THEN "open" ELSE "none"]
    /\ isDeleted = [s \in Sess |-> FALSE]
    /\ username = [s \in Sess |-> IF s = 2 THEN "bob" ELSE ""]
    /\ out = [s \in Sess |-> {}]
    /\ pc = [t \in Tasks |->
               IF t \in Handlers /\ Owner(t) \in Named
               THEN "add_load" ELSE "idle"]
    /\ loc = [t \in Tasks |-> NoLoc]
    /\ hs = [s \in Sess |->
               IF s \in Named
               THEN [version |-> minecraftProtocol, state |-> 2,
                     login |-> handshakePacketID]
               ELSE NoHandshake]
    /\ nChat = 0
    /\ nMove = 0
    /\ removed = {}
    /\ closeSnap = [reg |-> {}, counter |-> 0, removing |-> FALSE]
    /\ IdleIO

SpecAddRemove == InitAddRemove /\ [][NextAddRemove]_vars

\* broadcastSpawnPlayer called by the handler of a registered player, over
\* each registry and each state of the connections, with the packets of
\* the broadcast recorded
SpawnKinds == {"SpawnPlayer", "EntityLook"}

InitSpawn ==
    /\ watch = SpawnKinds
    /\ versions = {minecraftProtocol}
    /\ coords = {Spawn}
    /\ pos = [s \in Sess |-> Spawn]
    /\ look = [s \in Sess |-> NoLook]
    /\ degrees = {0}
    /\ lsn = NoListen
    /\ wire = [s \in Sess |-> <<>>]
    /\ username = [s \in Sess |-> IF s = 2 THEN "bob" ELSE ""]
    /\ \E caller \in Named, reg \in SUBSET Named :
         /\ caller \in reg
         /\ players = [u \in Usernames |->
                         IF \E s \in reg : username[s] = u
                         THEN CHOOSE s \in reg : username[s] = u
                         ELSE NoPlayer]
         /\ counter = Cardinality(reg)
         /\ conn \in [Sess -> {"open", "closed", "none"}]
         /\ \A s \in Sess : conn[s] = "none" <=> s \notin reg
         /\ conn[caller] = "open"
         /\ pc = [t \in Tasks |->
                    IF t = H(caller) THEN "sp_range"
                    ELSE IF t = Closer \/ Owner(t) \notin reg THEN "idle"
                    ELSE IF t \in Handlers THEN "returned"
                    ELSE IF t = R(Owner(t)) THEN "rd_loop" ELSE "ka_send"]
    /\ listening = TRUE
    /\ isDeleted = [s \in Sess |-> FALSE]
    /\ out = [s \in Sess |-> {}]
    /\ loc = [t \in Tasks |-> NoLoc]
    /\ hs = [s \in Sess |-> NoHandshake]
    /\ nChat = 0
    /\ nMove = 0
    /\ removed = {}
    /\ closeSnap = [reg |-> {}, counter |-> 0, removing |-> FALSE]
    /\ IdleIO

NextSpawn ==
    \E s \in Sess :
      \/ SpawnBegin(s)
      \/ SpawnClient(s)
      \/ SpawnOther(s)
      \/ SpawnLook(s)

SpecSpawn == InitSpawn /\ [][NextSpawn]_vars

\* player 1 is in Play and turns, while the handler of player 2, which has
\* just joined, is about to call broadcastSpawnPlayer
LookKinds == SpawnKinds \cup {"EntityRotation"}

Turns == {0, 90}

InitLook ==
    /\ watch = LookKinds
    /\ versions = {minecraftProtocol}
    /\ coords = {Spawn}
    /\ pos = [s \in Sess |-> Spawn]
    /\ look = [s \in Sess |-> NoLook]
    /\ degrees = Turns
    /\ lsn = NoListen
    /\ wire = [s \in Sess |-> <<>>]
    /\ players = [u \in Usernames |-> IF u = "" THEN 1 ELSE 2]
    /\ counter = 2
    /\ listening = TRUE
    /\ conn = [s \in Sess |-> IF s \in Named THEN "open" ELSE "none"]
    /\ isDeleted = [s \in Sess |-> FALSE]
    /\ username = [s \in Sess |-> IF s = 2 THEN "bob" ELSE ""]
    /\ out = [s \in Sess |-> {}]
    /\ pc = [t \in Tasks |->
               IF t = H(1) THEN "returned"
               ELSE IF t = R(1) THEN "rd_loop"
               ELSE IF t = K(1) THEN "ka_send"
               ELSE IF t = H(2) THEN "sp_range" ELSE "idle"]
    /\ loc = [t \in Tasks |-> NoLoc]
    /\ hs = [s \in Sess |-> NoHandshake]
    /\ nChat = 0
    /\ nMove = 0
    /\ removed = {}
    /\ closeSnap = [reg |-> {}, counter |-> 0, removing |-> FALSE]
    /\ IdleIO

NextLook ==
    \E s \in Sess :
      \/ ReaderLoop(s)
      \/ ReadLook(s)
      \/ LookYaw(s)
      \/ LookPitch(s)
      \/ MoveBegin(s)
      \/ MoveSend(s)
      \/ MoveLook(s)
      \/ SpawnBegin(s)
      \/ SpawnClient(s)
      \/ SpawnOther(s)
      \/ SpawnLook(s)
      \/ \E t \in Tasks :
           \/ RemoveClose(t)
           \/ RemoveDelete(t)
           \/ RemoveDecrement(t)
           \/ RemoveNotify(t)
           \/ RemoveDestroy(t)

SpecLook == InitLook /\ [][NextLook]_vars

\* the server from NewServer on: Start, the SetPort calls, clients that
\* connect, Close; the sessions do not run
InitListen == InitWith({}, {minecraftProtocol})

PortStep == PortListen \/ ErrSend \/ PortClosed

AcceptStep == AccLoop \/ AccError \/ AccClose

NextListen ==
    \/ StartCall
    \/ CloseCall
    \/ PortStep
    \/ AcceptStep
    \/ \E c \in Callers : SetPortCall(c) \/ PortSend(c) \/ PortPanic(c)
    \/ \E s \in Sess : AccConnect(s)

SpecListen == InitListen /\ [][NextListen]_vars

\* the two goroutines of listen() are scheduled; whether a client connects
\* is up to the clients
FairListen ==
    InitListen /\ [][NextListen]_vars /\ WF_vars(PortStep) /\ WF_vars(AcceptStep)

\* scheduling: a goroutine that can take a step of its own eventually takes
\* it; a read that waits for the client is no such step, a read on a failed
\* connection is
RemoveStep(t) ==
    \/ RemoveClose(t) \/ RemoveDelete(t) \/ RemoveDecrement(t)
    \/ RemoveNotify(t) \/ RemoveDestroy(t)

HandlerStep(s) ==
    \/ (~ConnOk(s) /\ (Handshake(s) \/ StatusPing(s) \/ LoginStart(s)))
    \/ StatusRequest(s) \/ StatusResponse(s) \/ StatusPong(s)
    \/ LoginSuccess(s)
    \/ AddLoad(s) \/ AddIncrement(s) \/ AddStore(s)
    \/ JoinWrite(s) \/ PlayerInfoBegin(s) \/ PlayerInfoSend(s)
    \/ ChatBegin(H(s)) \/ ChatSend(H(s))
    \/ SpawnBegin(s) \/ SpawnSend(s) \/ StartTasks(s)
    \/ RemoveStep(H(s))

ReaderStep(s) ==
    \/ ReaderLoop(s) \/ ReadError(s)
    \/ ChatBegin(R(s)) \/ ChatSend(R(s))
    \/ MoveBegin(s) \/ MoveSend(s) \/ MoveLook(s)
    \/ RemoveStep(R(s))

KeepAliveStep(s) == KeepAliveOk(s) \/ KeepAliveFail(s) \/ RemoveStep(K(s))

Fairness ==
    \A s \in Sess : /\ WF_vars(HandlerStep(s))
                    /\ WF_vars(ReaderStep(s))
                    /\ WF_vars(KeepAliveStep(s))

FairSpec == Init /\ [][Next]_vars /\ Fairness

\* the sessions with their keep-alive packets on record; only the keep-alive
\* goroutines are assumed to be scheduled
InitKeep == InitWith({"KeepAlive"}, {minecraftProtocol})

NextKeep == CoreStep

KeepAliveFair == \A s \in Sess : WF_vars(KeepAliveStep(s))

FairKeep == InitKeep /\ [][NextKeep]_vars /\ KeepAliveFair

\* the sessions with Chat packets coming in; only the reader goroutines are
\* assumed to be scheduled
InitRead == InitWith({}, {minecraftProtocol})

NextRead == Next

ReaderFair == \A s \in Sess : WF_vars(ReaderStep(s))

FairRead == InitRead /\ [][NextRead]_vars /\ ReaderFair

\* ------------------------------------------------- encoding and decoding
\* the values that are encoded: numbers around the powers of 128 and 256,
\* of both signs, alone and moved to the top of the word
SampleInts ==
    {0, 1, 2, 63, 64, 127, 128, 129, 255, 256, 300, 16383, 16384, 32767,
     32768, 65535, 2097151, 2097152, 268435455, 268435456,
     -1, -2, -64, -128, -129, -256, -32768, -32769, -268435456}

Samples(w) ==
    {WordOf(n, w) : n \in SampleInts}
    \cup {Shl(WordOf(n, w), w - 8) : n \in SampleInts}
    \cup {Shr(WordOf(n, w), 1) : n \in SampleInts}

IntTypes == {"Short", "UnsignedShort", "Int", "Long", "VarInt", "VarLong"}

Width(type) ==
    CASE type \in {"Short", "UnsignedShort"} -> 16
      [] type \in {"Int", "VarInt"} -> 32
      [] OTHER -> 64

\* positions at the ends and in the middle of the ranges of 26 and 12 bits
PositionXZ == {-33554432, -33554431, -1, 0, 1, 33554431}

PositionY == {-2048, -2047, -1, 0, 1, 2047}

\* packets: ids of one, two and five bytes, data of several lengths
PacketIDValues == {0, 1, 64, 127, 128, 300, -1}

PacketData == {<<>>, <<0>>, <<1, 2>>, <<255, 128, 7>>, <<128, 0, 0, 1>>}

\* what follows the encoded value on the reader
Trailing == {<<>>, <<9>>, <<128, 1>>}

\* a reader that has every byte at hand (a bytes.Buffer) fills the buffer
\* of Read whole; a connection hands over what has arrived, Segments bytes
WholeBuffer == 64

Segments == {1, 2, 3, WholeBuffer}

\* byte sequences that did not come from WriteTo: continuation bytes, with
\* or without a last byte
RECURSIVE Continuation(_, _)
Continuation(k, b) == IF k = 0 THEN <<>> ELSE <<b>> \o Continuation(k - 1, b)

RawVar ==
    {Continuation(k, b) \o last :
        k \in 0..(maxVarLongLen + 1), b \in {128, 255},
        last \in {<<>>, <<0>>, <<1>>, <<127>>}}

\* frames that did not come from Pack: any length prefix before any bytes
RawFrames ==
    {<<len>> \o body : len \in {0, 1, 2, 3, 4},
                       body \in PacketData \cup {<<5, 6, 7>>, <<128, 128>>}}

Encode(type, x) ==
    CASE type = "Short" -> ShortWriteTo(x)
      [] type = "UnsignedShort" -> UnsignedShortWriteTo(x)
      [] type = "Int" -> IntWriteTo(x)
      [] type = "Long" -> LongWriteTo(x)
      [] type = "VarInt" -> VarIntWriteTo(x)
      [] type = "VarLong" -> VarLongWriteTo(x)
      [] type = "Position" -> PositionWriteTo(x)
      [] type = "Packet" -> Pack(x)[1]

Decode(type, r, segment) ==
    CASE type = "Short" -> ShortReadFrom(r)
      [] type = "UnsignedShort" -> UnsignedShortReadFrom(r)
      [] type = "Int" -> IntReadFrom(r)
      [] type = "Long" -> LongReadFrom(r)
      [] type = "VarInt" -> VarIntReadFrom(r)
      [] type = "VarLong" -> VarLongReadFrom(r)
      [] type = "Position" -> PositionReadFrom(r)
      [] type = "Packet" -> Unpack(r, segment)
      [] type = "EntityAction" -> Unpack(r, segment)

Value(type, x, rest, segment) ==
    [type |-> type, stage |-> "value", x |-> x, rest |-> rest,
     segment |-> segment, written |-> <<>>, r |-> <<>>, back |-> <<>>]

Raw(type, r, segment) ==
    [type |-> type, stage |-> "raw", x |-> <<>>, rest |-> <<>>,
     segment |-> segment, written |-> <<>>, r |-> r, back |-> <<>>]

InitCodec ==
    /\ InitSessions({}, {}, {})
    /\ stream = <<>>
    /\ writeLock = 0
    /\ wr = <<>>
    /\ \/ \E t \in IntTypes, rest \in Trailing :
            \E x \in Samples(Width(t)) :
               codec = Value(t, x, rest, WholeBuffer)
       \/ \E x \in PositionXZ, y \in PositionY, z \in PositionXZ :
            codec = Value("Position", [X |-> x, Y |-> y, Z |-> z], <<>>,
                          WholeBuffer)
       \/ \E id \in PacketIDValues, data \in PacketData,
             rest \in Trailing, seg \in Segments :
            codec = Value("Packet", [ID |-> id, data |-> data], rest, seg)
       \/ \E t \in {"VarInt", "VarLong"}, r \in RawVar :
            codec = Raw(t, r, WholeBuffer)
       \/ \E r \in RawFrames, seg \in Segments : codec = Raw("Packet", r, seg)

\* WriteTo, Pack: the bytes of the value go on the reader, before what
\* follows them there
CodecWrite ==
    /\ codec.stage = "value"
    /\ codec' = [codec EXCEPT !.stage = "written",
                              !.written = Encode(codec.type, codec.x),
                              !.r = Encode(codec.type, codec.x) \o codec.rest]
    /\ UNCHANGED <<players, counter, listening, conn, isDeleted, username, out,
                   pc, loc, hs, nChat, nMove, watch, versions, removed,
                   closeSnap, pos, coords, look, degrees, lsn, wire, stream,
                   writeLock, wr>>

\* ReadFrom, Unpack on the reader
CodecRead ==
    /\ codec.stage \in {"written", "raw"}
    /\ codec' = [codec EXCEPT !.stage = "read",
                              !.back = Decode(codec.type, codec.r,
                                              codec.segment)]
    /\ UNCHANGED <<players, counter, listening, conn, isDeleted, username, out,
                   pc, loc, hs, nChat, nMove, watch, versions, removed,
                   closeSnap, pos, coords, look, degrees, lsn, wire, stream,
                   writeLock, wr>>

NextCodec == CodecWrite \/ CodecRead

\* writeEntityAction for each entity id and each action id, and the client
\* that reads what was written
ActionIDs == -1..6

InitAction ==
    /\ InitSessions({}, {}, {})
    /\ stream = <<>>
    /\ writeLock = 0
    /\ wr = <<>>
    /\ \E id \in Samples(32), action \in ActionIDs :
         codec = Value("EntityAction", [id |-> id, action |-> action], <<>>,
                       WholeBuffer)

\* the bytes of the Write calls, in their order
RECURSIVE Joined(_)
Joined(writes) ==
    IF writes = <<>> THEN <<>> ELSE Head(writes) \o Joined(Tail(writes))

ActionWrite ==
    /\ codec.stage = "value"
    /\ codec.type = "EntityAction"
    /\ LET writes == writeEntityAction(codec.x.id, codec.x.action)
       IN  codec' = [codec EXCEPT !.stage = "written",
                                  !.written = writes,
                                  !.r = Joined(writes)]
    /\ UNCHANGED <<players, counter, listening, conn, isDeleted, username, out,
                   pc, loc, hs, nChat, nMove, watch, versions, removed,
                   closeSnap, pos, coords, look, degrees, lsn, wire, stream,
                   writeLock, wr>>

NextAction == ActionWrite \/ CodecRead

SpecAction == InitAction /\ [][NextAction]_vars

SpecCodec == InitCodec /\ [][NextCodec]_vars

\* ------------------------------------- concurrent Pack on one connection
\* the handler or keep-alive of the session and the goroutines that
\* broadcast to it all call Pack on its net.Conn
Writers == 1..NWriters

\* a Keep Alive, a Chat Message, an Entity Look with a two-byte entity id
WirePackets ==
    {[ID |-> 31, data |-> <<0, 0, 0, 0, 0, 0, 0, 7>>],
     [ID |-> 14, data |-> <<2, 104, 105>>],
     [ID |-> 58, data |-> <<172, 2, 64>>]}

NoWriter == [pc |-> "idle", pk |-> [ID |-> 0, data |-> <<>>],
             calls |-> <<>>, cur |-> <<>>]

InitWire ==
    /\ InitSessions({}, {}, {})
    /\ stream = <<>>
    /\ writeLock = 0
    /\ wr = [w \in Writers |-> NoWriter]
    /\ codec = NoCodec

\* Pack(w) up to packet.WriteTo(w): the frame is in the local buffer
PackCall(w) ==
    /\ wr[w].pc = "idle"
    /\ \E pk \in WirePackets :
         wr' = [wr EXCEPT ![w] = [pc |-> "write", pk |-> pk,
                                  calls |-> Pack(pk), cur |-> <<>>]]
    /\ UNCHANGED <<players, counter, listening, conn, isDeleted, username, out,
                   pc, loc, hs, nChat, nMove, watch, versions, removed,
                   closeSnap, pos, coords, look, degrees, lsn, wire, stream,
                   writeLock, codec>>

\* w.Write(b) on the net.Conn: Write takes the write lock of the socket
\* (several goroutines may call the methods of a Conn at the same time)
WriteBegin(w) ==
    /\ wr[w].pc = "write"
    /\ writeLock = 0
    /\ writeLock' = w
    /\ wr' = [wr EXCEPT ![w].pc = "writing",
                        ![w].cur = Head(wr[w].calls),
                        ![w].calls = Tail(wr[w].calls)]
    /\ UNCHANGED <<players, counter, listening, conn, isDeleted, username, out,
                   pc, loc, hs, nChat, nMove, watch, versions, removed,
                   closeSnap, pos, coords, look, degrees, lsn, wire, stream,
                   codec>>

\* the socket takes some of the bytes; Write goes on until it took all
WriteSome(w) ==
    /\ wr[w].pc = "writing"
    /\ \E k \in 1..Len(wr[w].cur) :
         /\ stream' = stream \o SubSeq(wr[w].cur, 1, k)
         /\ wr' = [wr EXCEPT
                     ![w].cur = SubSeq(wr[w].cur, k + 1, Len(wr[w].cur))]
    /\ UNCHANGED <<players, counter, listening, conn, isDeleted, username, out,
                   pc, loc, hs, nChat, nMove, watch, versions, removed,
                   closeSnap, pos, coords, look, degrees, lsn, wire, writeLock,
                   codec>>

\* Write returns and gives up the lock; Pack returns after its last Write
WriteEnd(w) ==
    /\ wr[w].pc = "writing"
    /\ wr[w].cur = <<>>
    /\ writeLock' = 0
    /\ wr' = [wr EXCEPT
                ![w].pc = IF wr[w].calls = <<>> THEN "done" ELSE "write"]
    /\ UNCHANGED <<players, counter, listening, conn, isDeleted, username, out,
                   pc, loc, hs, nChat, nMove, watch, versions, removed,
                   closeSnap, pos, coords, look, degrees, lsn, wire, stream,
                   codec>>

NextWire ==
    \E w \in Writers :
        PackCall(w) \/ WriteBegin(w) \/ WriteSome(w) \/ WriteEnd(w)

SpecWire == InitWire /\ [][NextWire]_vars

\* ============================================================ properties
\* the goroutine is inside addPlayer
InAdd(s) ==
    \/ pc[H(s)] \in {"add_load", "add_incr", "add_store"}
    \/ pc[H(s)] \in RmPcs /\ loc[H(s)].ret = "add_store"

\* the session has been through addPlayer
Added(s) ==
    /\ Pkt("LoginSuccess", s, 0) \in out[s]
    /\ pc[H(s)] # "add_load"
    /\ ~InAdd(s)

\* C1: from an empty registry, when addPlayer(Q) completes after addPlayer(P)
\* with the same username, the registry holds Q under that name, P is closed
\* and tombstoned, and the counter is 1
C1_SequentialDuplicateLogin ==
    [][\A q \in Sess :
         LET p == loc[H(q)].precedent IN
         (/\ pc[H(q)] = "add_store" /\ pc'[H(q)] = "join"
          /\ p # NoPlayer
          /\ \A r \in Sess \ {p, q} : conn[r] = "none")
         => /\ players'[username[q]] = q
            /\ Keys' = {username[q]}
            /\ conn'[p] = "closed" /\ isDeleted'[p]
            /\ counter' = 1]_vars

\* C2: once every addPlayer call has completed, at most one session of a
\* username is open and not tombstoned, and it is the one in the registry
LiveUnder(u) ==
    {s \in Sess : /\ username[s] = u /\ Added(s)
                  /\ conn[s] # "closed" /\ ~isDeleted[s]}

C2_UsernameUnique ==
    (\A s \in Sess : pc[H(s)] # "add_load" /\ ~InAdd(s))
    => \A u \in Usernames :
         /\ Cardinality(LiveUnder(u)) <= 1
         /\ \A s \in LiveUnder(u) : players[u] = s

\* C3: with no addPlayer or removePlayer call in progress, the counter is
\* the number of entries of the players map
Quiescent ==
    /\ \A s \in Sess : ~InAdd(s)
    /\ \A t \in Tasks : ~InRemove(t)

C3_CounterIsCardinality == Quiescent => counter = Cardinality(Keys)

\* C4: once removePlayer(p) has deleted p, the LoadAndDelete of a later
\* removePlayer(p) finds nothing: the map stays as it is and the call
\* returns without decrementing the counter or notifying anyone
C4_RemoveIdempotent ==
    [][\A t \in Tasks :
         (/\ pc[t] = "rm_delete" /\ pc'[t] # "rm_delete"
          /\ loc[t].target \in removed)
         => players' = players /\ pc'[t] # "rm_decr"]_vars

\* C5: a session whose handshake has a protocol_version other than 754 gets
\* no Status Response and no Login Success, is not registered, and its
\* handler ends with the connection closed
HandlerEnded(s) == pc[H(s)] \in {"returned", "exited"}

Rejected(s) ==
    /\ Kinds(s) \cap {"StatusResponse", "LoginSuccess"} = {}
    /\ s \notin Registered
    /\ pc[H(s)] \in RmPcs \cup {"exited"}
    /\ pc[H(s)] \in RmPcs =>
         loc[H(s)].target = s /\ loc[H(s)].ret = "goexit"
    /\ pc[H(s)] # "rm_close" => conn[s] = "closed"

C5_WrongProtocolRejected ==
    \A s \in Sess :
      hs[s].version \notin {NoField, minecraftProtocol} => Rejected(s)

\* C6: a session whose handshake has protocol_version 754 and a next_state
\* other than 1 and 2 gets no Status Response and no Login Success, is not
\* registered, and its handler ends with the connection closed
C6_WrongNextStateRejected ==
    \A s \in Sess :
      (hs[s].version = minecraftProtocol /\ hs[s].state \notin {1, 2})
      => Rejected(s)

C6_Witness ==
    \E s \in Sess :
      /\ hs[s].version = minecraftProtocol /\ hs[s].state = 3
      /\ pc[H(s)] = "exited"
      /\ conn[s] = "closed"

\* C7: when a write of broadcastChatMessage fails for recipient R, R leaves
\* the registry and every other session that was registered when the
\* broadcast began, still is, and has a working connection gets the message
ChatAborted(t) ==
    /\ pc[t] \in RmPcs /\ pc'[t] = "exited"
    /\ loc[t].msg.kind = "Chat"

C7_ChatFailureIsolated ==
    [][\A t \in Tasks :
         ChatAborted(t)
         => /\ loc[t].target \notin Registered'
            /\ \A r \in loc[t].snap \ {loc[t].target} :
                 (r \in Registered' /\ conn'[r] = "open")
                 => loc[t].msg \in out'[r]]_vars

\* C8: a goroutine of session S is never ended by the removal of another
\* session: a handler or reader that exits through removePlayerAndExit was
\* removing its own player
C8_OthersFailureDoesNotEndTask ==
    [][\A s \in Sess : \A t \in {H(s), R(s)} :
         (pc[t] # "exited" /\ pc'[t] = "exited") => loc[t].target = s]_vars

\* C9: once a Close has finished that was called with k sessions registered,
\* the counter at k and no removePlayer call under way, and no removePlayer
\* call of another goroutine is under way, every one of the k is closed and
\* tombstoned, the map is empty and the counter is 0
C9_CloseRemovesEveryone ==
    (/\ pc[Closer] \in {"returned", "exited"}
     /\ closeSnap.counter = Cardinality(closeSnap.reg)
     /\ ~closeSnap.removing
     /\ \A t \in Tasks : ~InRemove(t))
    => /\ \A s \in closeSnap.reg : conn[s] = "closed" /\ isDeleted[s]
       /\ Keys = {}
       /\ counter = 0

\* C10: a registered session whose connection is closed or has failed is
\* eventually not in the players map
C10_FailedSessionLeaves ==
    \A s \in Sess :
      (s \in Registered /\ conn[s] \in {"broken", "closed"})
      ~> (s \notin Registered)

\* C11: the packets a handler writes to its own connection come in the order
\* Login Success, Join Game, Player Position And Look, Server Difficulty,
\* four Chunk Data, Player Info (add), join Chat Message, and when the
\* handler of a session whose connection never failed starts the reader and
\* the keep-alive, all of them have been written
PlayEntry(s) ==
    <<Pkt("LoginSuccess", s, 0)>>
    \o [i \in 1..Len(JoinSeq) |-> Pkt(JoinSeq[i], s, i)]
    \o <<Pkt("PlayerInfoAdd", s, 0), Pkt("Chat", s, 0)>>

C11_PlayEntryOrder ==
    [][\A s \in Sess :
         /\ \A i \in 1..Len(PlayEntry(s)) :
              (PlayEntry(s)[i] \in out'[s] \ out[s])
              => \A j \in 1..(i - 1) : PlayEntry(s)[j] \in out[s]
         /\ (pc[H(s)] = "go" /\ pc'[R(s)] = "rd_loop" /\ conn[s] = "open")
            => \A i \in 1..Len(PlayEntry(s)) : PlayEntry(s)[i] \in out[s]]_vars

\* C12: in a session whose handshake has next_state 1 the Response is written
\* after the read of the Request, the Pong after the read of the Ping and
\* with the Long of that Ping, and nothing is written after the Pong
StatusSession(s) == hs[s].state = 1

Written(s) == out'[s] \ out[s]

C12_StatusExchange ==
    [][\A s \in Sess : StatusSession(s) =>
         /\ (Pkt("StatusResponse", s, 0) \in Written(s))
            => pc[H(s)] = "st_resp"
         /\ \A pong \in Written(s) :
              pong.kind = "Pong"
              => /\ pc[H(s)] = "st_pong"
                 /\ loc[H(s)].msg.kind = "Ping"
                 /\ loc[H(s)].msg.n # NoField => pong.n = loc[H(s)].msg.n
         /\ (\E pong \in out[s] : pong.kind = "Pong") => Written(s) = {}]_vars

C12_Witness ==
    \E s \in Sess :
      /\ StatusSession(s)
      /\ {Pkt("StatusResponse", s, 0), Pkt("Pong", s, 7)} \subseteq out[s]
      /\ pc[H(s)] = "returned"

\* C13: a session that took the Status branch is never stored in the players
\* map, its handler never changes the map or the counter, and when its
\* handler has ended its connection is closed
C13_StatusNeverRegistered ==
    [][\A s \in Sess : StatusSession(s) =>
         /\ s \notin Registered'
         /\ pc'[H(s)] # pc[H(s)]
            => players' = players /\ counter' = counter
         /\ HandlerEnded(s)' => conn'[s] = "closed"]_vars

\* C14: when newPlayer fails before Login Success is written (handshake,
\* status exchange, Login Start id, Login Success write), the removal it
\* runs changes neither the players map nor the counter nor the connection
\* of a registered session, and notifies nobody
FailedBeforeLogin(s) ==
    /\ pc[H(s)] \in RmPcs
    /\ loc[H(s)].target = s /\ loc[H(s)].ret = "goexit"
    /\ Pkt("LoginSuccess", s, 0) \notin out[s]

C14_ErrorClosesOnlyOffender ==
    [][\A s \in Sess :
         (FailedBeforeLogin(s) /\ pc'[H(s)] # pc[H(s)])
         => /\ players' = players /\ counter' = counter
            /\ \A r \in Registered : conn'[r] = conn[r]
            /\ pc'[H(s)] \notin {"rm_decr", "rm_notify", "rm_destroy"}]_vars

\* C15: a session in the players map has been sent Login Success, addPlayer
\* is called only after a Login Start with id 0x00, and a session whose
\* Login Start has another id or whose Login Success write failed is not
\* stored
LoginSent(s) == Pkt("LoginSuccess", s, 0) \in out[s]

C15_StoredOnlyAfterLogin ==
    \A s \in Sess :
      /\ s \in Registered => LoginSent(s)
      /\ pc[H(s)] = "add_load"
         => hs[s].login = handshakePacketID /\ LoginSent(s)
      /\ (hs[s].login # NoField /\ pc[H(s)] # "lg_success"
          /\ (hs[s].login # handshakePacketID \/ ~LoginSent(s)))
         => /\ s \notin Registered
            /\ ~LoginSent(s)
            /\ pc[H(s)] \in RmPcs \cup {"exited"}

C15_Witness ==
    \E s, r \in Sess :
      /\ s \in Registered
      /\ hs[r].login = 1 /\ pc[H(r)] = "exited"

\* C16: when the broadcast of an inbound movement, action or animation
\* packet of session a ends, every other session that was registered when
\* it began, still is, and has a working connection has been sent the
\* corresponding packets, and a's own connection never gets a packet about a
MoveEnds(s) == pc[R(s)] \in {"mv_send", "mv_look"} /\ pc'[R(s)] = "rd_loop"

Healthy == \A r \in Sess : conn[r] \in {"none", "open"}

ChatVisited(t) == {players[k] : k \in loc[t].iter \ loc'[t].iter} \ {NoPlayer}

C17_ChatReachesEveryone ==
    [][\A a \in Sess :
         (pc[R(a)] = "chat_send" /\ a \in loc[R(a)].snap /\ Healthy')
         => /\ \A r \in ChatVisited(R(a)) : loc[R(a)].msg \notin out[r]
            /\ pc'[R(a)] = "rd_loop"
               => \A r \in loc[R(a)].snap : loc[R(a)].msg \in out'[r]]_vars


\* the two packets a removal of p sends to each client
RemovalInfo(p) == Pkt("PlayerInfoRemove", p, 0)

RemovalDestroy(p) == Pkt("DestroyEntities", p, 0)

\* task t is inside the removePlayer whose LoadAndDelete returned p itself
Deleting(t) ==
    /\ pc[t] \in {"rm_decr", "rm_notify", "rm_destroy"}
    /\ loc[t].deleted # NoPlayer
    /\ loc[t].deleted = loc[t].target

\* C18: in the removal of p that deletes p from the map, p's connection is
\* closed and p is tombstoned, the counter goes down by exactly one, every
\* session in the map when the Range began and still registered with a working
\* connection when it ends has been sent PlayerInfo(remove) and then
\* DestroyEntities for p, none gets DestroyEntities before PlayerInfo(remove),
\* and p itself is sent nothing.
C18_RemovalNotifiesOthers ==
    [][\A t \in Tasks :
         Deleting(t)
         => /\ conn[loc[t].target] = "closed"
            /\ isDeleted[loc[t].target]
            /\ (pc[t] = "rm_decr" /\ pc'[t] # "rm_decr")
               => counter' = counter - 1
            /\ (pc[t] # "rm_decr" /\ pc'[t] # "rm_decr")
               => counter' >= counter \/ \E u \in Tasks \ {t} : pc[u] = "rm_decr"
            /\ pc[t] = "rm_destroy" => loc[t].rcpt # loc[t].target
            /\ \A r \in Sess :
                 /\ RemovalDestroy(loc[t].target) \in out'[r]
                    => RemovalInfo(loc[t].target) \in out'[r]
                 /\ (pc[t] = "rm_destroy" /\ r = loc[t].rcpt /\ conn[r] = "open")
                    => RemovalInfo(loc[t].target) \in out[r]
            /\ RemovalInfo(loc[t].target) \notin out'[loc[t].target]
            /\ RemovalDestroy(loc[t].target) \notin out'[loc[t].target]
            /\ pc'[t] \notin RmPcs
               => \A r \in loc[t].rmSnap :
                    (players'[username[r]] = r /\ conn'[r] = "open")
                    => /\ RemovalInfo(loc[t].target) \in out'[r]
                       /\ RemovalDestroy(loc[t].target) \in out'[r]]_vars

\* a removed player whose removal reached a client that is still registered
C18_Witness ==
    \E p \in removed : \E r \in Registered \ {p} :
        /\ conn[r] = "open"
        /\ RemovalInfo(p) \in out[r]
        /\ RemovalDestroy(p) \in out[r]

Ended == {"returned", "exited"}

\* some goroutine has tombstoned p and has its LoadAndDelete still to do
RemovalPending(p) ==
    \E t \in Tasks : pc[t] \in {"rm_close", "rm_delete"} /\ loc[t].target = p

\* C19: the keep-alive of p writes only from its loop, with a working
\* connection; a write that fails ends the loop or enters removePlayer, from
\* which the task never returns to the loop and writes no Keep Alive; when the
\* task has ended p is out of the map or its LoadAndDelete is on the way; and
\* once p is tombstoned and its connection closed the task eventually ends
\* (the tombstone, the closed connection and the end of the task are all
\* permanent, so the task is not left running for ever).
KeepAliveLeft(s) ==
    /\ pc[K(s)] \notin {"idle"} \cup Ended
    /\ isDeleted[s]
    /\ conn[s] = "closed"

C19_KeepAliveStops ==
    /\ [][\A s \in Sess :
            /\ KeepAlives(s)' # KeepAlives(s)
               => pc[K(s)] = "ka_send" /\ pc'[K(s)] = "ka_send" /\ ConnOk(s)
            /\ (pc[K(s)] = "ka_send" /\ pc'[K(s)] # "ka_send")
               => /\ ~ConnOk(s)
                  /\ pc'[K(s)] \in {"returned", "rm_close"}
                  /\ pc'[K(s)] = "rm_close" => loc'[K(s)].target = s
            /\ pc[K(s)] \in RmPcs => pc'[K(s)] \in RmPcs \cup {"exited"}
            /\ pc[K(s)] \in Ended => pc'[K(s)] = pc[K(s)]
            /\ pc'[K(s)] \in Ended
               => s \notin Registered' \/ RemovalPending(s)'
            /\ isDeleted[s] => isDeleted'[s]
            /\ conn[s] = "closed" => conn'[s] = "closed"]_vars
    /\ \A s \in Sess : []<>(~KeepAliveLeft(s))

\* the keep-alive of a session that was registered has ended after a write
\* that succeeded and one that failed, and the session is out of the map
C19_Witness ==
    \E s \in removed :
        /\ pc[K(s)] \in Ended
        /\ KeepAlives(s) # {}
        /\ isDeleted[s] /\ conn[s] = "closed"
        /\ s \notin Registered

\* the reader is handling a packet it has read
DispatchPcs == {"chat_range", "chat_send", "mv_view", "mv_range", "mv_send",
                "mv_look"}

ReaderLeft(s) ==
    /\ pc[R(s)] \notin {"idle"} \cup Ended
    /\ isDeleted[s]
    /\ conn[s] = "closed"

\* C20: the reader of p handles a packet only after a loop check that did not
\* see the tombstone and a read that succeeded; a loop check that sees the
\* tombstone ends the task, a read error takes it into removePlayer of p, and
\* from removePlayer or its end the task never goes back to reading or to a
\* broadcast; and once p is tombstoned and its connection closed the task
\* eventually ends (tombstone, closed connection and the end of the task are
\* permanent, so the task is not left running for ever).
C20_ReaderStops ==
    /\ [][\A s \in Sess :
            /\ (pc'[R(s)] \in DispatchPcs /\ pc[R(s)] \notin DispatchPcs)
               => pc[R(s)] = "rd_read" /\ ConnOk(s)
            /\ (pc'[R(s)] = "rd_read" /\ pc[R(s)] # "rd_read")
               => pc[R(s)] = "rd_loop"
            /\ (pc[R(s)] = "rd_loop" /\ pc'[R(s)] # "rd_loop")
               => \/ pc'[R(s)] = "rd_read"
                  \/ pc'[R(s)] = "returned" /\ isDeleted[s]
            /\ (pc[R(s)] = "rd_read" /\ ~ConnOk(s) /\ pc'[R(s)] # "rd_read")
               => pc'[R(s)] = "rm_close" /\ loc'[R(s)].target = s
            /\ pc[R(s)] \in RmPcs => pc'[R(s)] \in RmPcs \cup {"exited"}
            /\ pc[R(s)] \in Ended => pc'[R(s)] = pc[R(s)]
            /\ isDeleted[s] => isDeleted'[s]
            /\ conn[s] = "closed" => conn'[s] = "closed"]_vars
    /\ \A s \in Sess : []<>(~ReaderLeft(s))

\* after a Chat packet was handled, the keep-alive of a registered player
\* removed it, and its reader saw the tombstone and ended
C20_Witness ==
    \E s \in removed :
        /\ pc[R(s)] = "returned"
        /\ pc[K(s)] = "exited"
        /\ isDeleted[s] /\ conn[s] = "closed"
        /\ nChat = MaxChat

\* s is frames of the writers ws one after the other, the last one perhaps
\* still being written by a goroutine whose Pack has not returned
RECURSIVE WholeFrames(_, _)
WholeFrames(s, ws) ==
    \/ s = <<>>
    \/ \E w \in ws :
         LET f == PackBuffer(wr[w].pk)
         IN  \/ /\ Len(f) <= Len(s)
                /\ SubSeq(s, 1, Len(f)) = f
                /\ WholeFrames(SubSeq(s, Len(f) + 1, Len(s)), ws \ {w})
             \/ /\ Len(s) < Len(f)
                /\ s = SubSeq(f, 1, Len(s))
                /\ wr[w].pc # "done"

\* the packets that Unpack reads off s one after the other, or an error
RECURSIVE UnpackAll(_)
UnpackAll(s) ==
    IF s = <<>> THEN <<>>
    ELSE LET pk == Unpack(s, WholeBuffer)
         IN  IF pk.err THEN <<"error">>
             ELSE <<[ID |-> pk.ID, data |-> pk.data]>>
                  \o UnpackAll(SubSeq(s, pk.used + 1, Len(s)))

Packing == {w \in Writers : wr[w].pc # "idle"}

\* C21: whatever the interleaving of the goroutines that call Pack on a
\* connection, the bytes the connection has taken are whole frames
\* length | id | body one after the other (the last one may be under way,
\* by a goroutine still inside Pack), and once every Pack has returned
\* they unpack to the packets that were packed, each once.
C21_WholeFrames ==
    /\ WholeFrames(stream, Packing)
    /\ (\A w \in Writers : wr[w].pc = "done")
       => \E order \in Permutations(Writers) :
            UnpackAll(stream) = [i \in Writers |-> wr[order[i]].pk]

\* two goroutines with different packets were inside Pack at the same time,
\* and both frames are on the connection
C21_Witness ==
    /\ \A w \in Writers : wr[w].pc = "done"
    /\ wr[1].pk # wr[2].pk
    /\ Len(stream) > 0

\* C22: on every connection the packets of one inbound movement of a player
\* arrive in the order the broadcast writes them, Entity Teleport or Entity
\* Rotation before the Entity Look, and all packets of an earlier inbound
\* packet of that player before any packet of a later one
FirstKinds == {"EntityTeleport", "EntityRotation"}

C22_PerRecipientOrder ==
    \A r \in Sess :
      \A i, j \in 1..Len(wire[r]) :
        (i < j /\ wire[r][i].pkt.about = wire[r][j].pkt.about)
        => /\ wire[r][i].event <= wire[r][j].event
           /\ wire[r][i].event = wire[r][j].event
              => /\ wire[r][i].pkt.kind \in FirstKinds
                 /\ wire[r][j].pkt.kind = "EntityLook"

C22_Witness ==
    \E r \in Sess :
      /\ Len(wire[r]) = 4
      /\ \A i \in 1..4 : wire[r][i].pkt.about = wire[r][1].pkt.about
      /\ wire[r][1].pkt.kind = "EntityTeleport"
      /\ wire[r][2].event = 1
      /\ wire[r][3].pkt.kind = "EntityRotation"
      /\ wire[r][4].event = 2

\* C29: when the reader of a player in Play reads a packet whose id has no
\* case in handlePacket, or a Teleport Confirm or a Keep Alive, the stored
\* position, the registry, the counter and the connections stay as they
\* are, nothing is written to any connection, and the reader goes back to
\* the head of its loop
Ignores(s) ==
    /\ pc[R(s)] = "rd_read"
    /\ pc'[R(s)] # "rd_read"
    /\ loc'[R(s)].msg.kind = "Ignored"
    /\ loc'[R(s)].target = NoPlayer

Chunk(p) == <<coordinateToChunk(p[1]), coordinateToChunk(p[2])>>

Positions(s) ==
    /\ pc[R(s)] = "rd_read"
    /\ pc'[R(s)] \in {"mv_view", "mv_range"}
    /\ loc'[R(s)].msg.kind = "Position"

C30_ViewUpdateIffChunkChanges ==
    [][\A s \in Sess :
         /\ Positions(s)
            => (pc'[R(s)] = "mv_view" <=> Chunk(pos'[s]) # Chunk(pos[s]))
         /\ (pc[R(s)] = "mv_view" /\ pc'[R(s)] = "mv_range")
            => Pkt("UpdateView", s, 0) \in out'[s]]_vars

\* C23: Unpack, applied to a reader that holds the bytes Pack produced for
\* the id I and the body B, returns no error, ID = I and B as the remaining
\* data, and takes exactly the bytes of that frame from the reader
Framed ==
    /\ codec.type = "Packet"
    /\ codec.stage = "read"
    /\ codec.x # <<>>
    /\ codec.segment = WholeBuffer

C23_FramingRoundTrip ==
    Framed
    => /\ ~codec.back.err
       /\ codec.back.ID = codec.x.ID
       /\ codec.back.data = codec.x.data
       /\ codec.back.used = Len(codec.written)

C23_Witness ==
    /\ Framed
    /\ codec.x = [ID |-> 300, data |-> <<255, 128, 7>>]
    /\ codec.rest = <<128, 1>>
    /\ codec.back.used = 6

\* C24: Unpack returns an error when the length it decodes is below 1, and
\* whenever it returns no error the ID and the data it returns are those of
\* the `length` bytes that follow the length prefix on the stream, however
\* the stream hands them over
Prefix == VarIntReadFrom(codec.r)

Following ==
    SubSeq(codec.r, Prefix.used + 1, Prefix.used + IntOf(Prefix.v))

C24_UnpackReadsWholeFrame ==
    (codec.type = "Packet" /\ codec.stage = "read")
    => /\ (~Prefix.err /\ IntOf(Prefix.v) < 1) => codec.back.err
       /\ ~codec.back.err
          => /\ Len(codec.r) >= Prefix.used + IntOf(Prefix.v)
             /\ codec.back.ID = IntOf(VarIntReadFrom(Following).v)
             /\ codec.back.data =
                  SubSeq(Following, VarIntReadFrom(Following).used + 1,
                         Len(Following))

\* C25: VarInt.WriteTo writes 1 to 5 bytes and VarLong.WriteTo 1 to 10;
\* VarInt.ReadFrom returns an error when the first 5 bytes of its input all
\* have the continuation bit set, VarLong.ReadFrom when the first 10 do
Continued(r, k) == Len(r) >= k /\ \A i \in 1..k : r[i] >= 128

C25_VarLengthBounds ==
    /\ (codec.type = "VarInt" /\ codec.stage = "written")
       => Len(codec.written) \in 1..5
    /\ (codec.type = "VarLong" /\ codec.stage = "written")
       => Len(codec.written) \in 1..10
    /\ (codec.type = "VarInt" /\ codec.stage = "read"
          /\ Continued(codec.r, 5))
       => codec.back.err
    /\ (codec.type = "VarLong" /\ codec.stage = "read"
          /\ Continued(codec.r, 10))
       => codec.back.err

\* C26: for a value x of Short, UnsignedShort, Int, Long, VarInt or VarLong,
\* ReadFrom on the bytes WriteTo wrote for x returns no error and x, and
\* takes exactly those bytes from the reader
IntRead ==
    /\ codec.type \in IntTypes
    /\ codec.stage = "read"
    /\ codec.x # <<>>

C26_IntegerRoundTrip ==
    IntRead
    => /\ ~codec.back.err
       /\ codec.back.v = codec.x
       /\ codec.back.used = Len(codec.written)
       /\ codec.back.n = Len(codec.written)

C26_Witness ==
    /\ IntRead
    /\ codec.type = "VarInt"
    /\ codec.x = WordOf(-129, 32)
    /\ codec.rest = <<128, 1>>
    /\ codec.back.used = 5

\* C27: Position.ReadFrom on the 8 bytes Position.WriteTo wrote for (x, y,
\* z), x and z of 26 bits and y of 12 bits with their signs, returns (x, y,
\* z); of the 64-bit value written most significant byte first, x is the
\* top 26 bits, z the next 26 and y the low 12
PositionRead ==
    /\ codec.type = "Position"
    /\ codec.stage = "read"

Written64 == FromBigEndian(codec.written, 64)

C27_PositionRoundTrip ==
    PositionRead
    => /\ ~codec.back.err
       /\ codec.back.v = codec.x
       /\ Len(codec.written) = 8
       /\ SubSeq(Written64, 39, 64) = WordOf(codec.x.X, 26)
       /\ SubSeq(Written64, 13, 38) = WordOf(codec.x.Z, 26)
       /\ SubSeq(Written64, 1, 12) = WordOf(codec.x.Y, 12)

C27_Witness ==
    /\ PositionRead
    /\ codec.x = [X |-> -33554432, Y |-> -2048, Z |-> 33554431]
    /\ codec.back.used = 8

\* C28: addPlayer called in parallel for players of distinct usernames,
\* then removePlayer called in parallel for each of them: when every call
\* has returned, the counter is 0 and the players map is empty
AllRemoved == \A s \in Named : pc[H(s)] = "exited"

C28_ParallelAddRemove ==
    /\ AllRemoved => (counter = 0 /\ Keys = {})
    /\ (\A s \in Named : pc[H(s)] = "join")
       => (counter = Cardinality(Named) /\ Registered = Named)

C28_Witness ==
    /\ AllRemoved
    /\ removed = Named
    /\ \E s \in Named : Pkt("PlayerInfoRemove", s, 0) \in UNION {out[r] : r \in Named}

\* C39: the counter of online players is never negative
C39_CounterNeverNegative == counter >= 0

\* C40: isDeleted of a player never goes back from true to false; when a
\* removePlayer(p) call returns p is not in the players map, and p is never
\* stored in the map once its isDeleted is set, which the call does first
RemoveReturns(t) == InRemove(t) /\ ~InRemove(t)'

C40_TombstoneFinal ==
    [][/\ \A p \in Sess : isDeleted[p] => isDeleted'[p]
       /\ \A t \in Tasks :
            RemoveReturns(t) => loc[t].target \notin Registered'
       /\ \A p \in Sess :
            (p \in Registered' /\ p \notin Registered) => ~isDeleted[p]]_vars

C40_Witness ==
    \E p, q \in Sess :
      /\ p # q /\ username[p] = username[q]
      /\ p \in removed /\ isDeleted[p] /\ ~isDeleted[q]
      /\ q \in Registered
      /\ \A t \in Tasks : ~InRemove(t)

\* C38: while a joining session has not yet been sent its Join Game, no
\* Play-state packet of a broadcast has been written to its connection
BroadcastKinds == {"PlayerInfoAdd", "Chat", "SpawnPlayer", "EntityLook",
                   "PlayerInfoRemove", "DestroyEntities"}

BeforeJoinGame(s) == pc[H(s)] = "join" /\ loc[H(s)].joinIdx = 1

C38_JoinGameFirst ==
    \A s \in Sess : BeforeJoinGame(s) => Kinds(s) \cap BroadcastKinds = {}

\* the count field of a PlayerInfo(add) packet: VarInt(s.counter)
PlayerInfoCount == counter

\* the entries of the packet: one for each player the inner Range visits
PlayerInfoEntries == Registered

\* the outer Range of broadcastPlayerInfo is about to build a packet for a
\* client that is still registered
PlayerInfoBuilt(s) ==
    /\ pc[H(s)] = "pi_send"
    /\ \E k \in loc[H(s)].iter : players[k] # NoPlayer

\* C32: the count field of every PlayerInfo(add) packet that
\* broadcastPlayerInfo builds is the number of player entries of the packet
C32_PlayerInfoCount ==
    \A s \in Sess :
      PlayerInfoBuilt(s) => PlayerInfoCount = Cardinality(PlayerInfoEntries)

\* the packets written to r, in the order of the writes
Sent(r) == [i \in 1..Len(wire[r]) |-> wire[r][i].pkt]

\* a broadcastSpawnPlayer call has returned, and the connections of all
\* the registered players are healthy
SpawnDone ==
    /\ \E s \in Sess : pc[H(s)] = "go"
    /\ \A r \in Registered : ConnOk(r)

writeChatMessage(p, msg) ==
    [kind |-> "Chat", text |-> msg.about, position |-> 0, sender |-> p]

\* C34: every Chat Message of the broadcast of a line read from player a
\* carries the UUID of a in its sender field
C34_ChatSenderUUID ==
    \A a \in Sess :
      pc[R(a)] = "chat_send" =>
        \A k \in loc[R(a)].iter :
          players[k] # NoPlayer =>
            writeChatMessage(players[k], loc[R(a)].msg).sender = a

\* the metadata of the actions 0, 1, 3 and 4
ActionTuple(action) ==
    CASE action = 0 -> <<6, 18, 5>>
      [] action = 1 -> <<6, 18, 0>>
      [] action = 3 -> <<0, 0, 8>>
      [] action = 4 -> <<0, 0, 0>>

ActionDone == codec.type = "EntityAction" /\ codec.stage = "read"

\* C35: writeEntityAction writes nothing for an action other than 0, 1, 3
\* and 4; for those four it writes one Entity Metadata packet (0x44) with
\* the entity id, the tuple of the action and the terminator 0xFF
C35_EntityActionMetadata ==
    ActionDone =>
      IF codec.x.action \notin {0, 1, 3, 4}
      THEN codec.written = <<>>
      ELSE /\ Len(codec.written) = 1
           /\ ~codec.back.err
           /\ codec.back.ID = 68
           /\ codec.back.used = Len(codec.written[1])
           /\ LET id == VarIntReadFrom(codec.back.data)
              IN  /\ ~id.err
                  /\ id.v = codec.x.id
                  /\ SubSeq(codec.back.data, id.used + 1,
                            Len(codec.back.data))
                       = ActionTuple(codec.x.action) \o <<255>>

C35_Witness ==
    /\ ActionDone
    /\ codec.x = [id |-> WordOf(300, 32), action |-> 3]
    /\ codec.written = <<(<<7, 68, 172, 2, 0, 0, 8, 255>>)>>

\* the reader of a player that has not been removed is between two packets
BetweenPackets(s) == pc[R(s)] \in {"rd_loop", "rd_read"} /\ ~isDeleted[s]

\* the entries of the wires that carry yaw and pitch
PoseEntries ==
    UNION {{wire[r][i] : i \in 1..Len(wire[r])} : r \in Sess}

\* C31: between two packets of a player yaw = toAngle(yawAbs) and
\* pitch = toAngle(pitchAbs); yaw and pitch change only in the handler that
\* has just read yawAbs and pitchAbs; every packet that carries the yaw and
\* the pitch of a player carries those of one inbound packet of the player
C31_CompactAngles ==
    [][/\ \A s \in Sess :
            BetweenPackets(s)' =>
              /\ look'[s].yaw = toAngle(look'[s].yawAbs)
              /\ look'[s].pitch = toAngle(look'[s].pitchAbs)
       /\ \A s \in Sess :
            (look'[s].yaw # look[s].yaw \/ look'[s].pitch # look[s].pitch)
            => pc[R(s)] \in {"lk_yaw", "lk_pitch"}
       /\ \A e \in PoseEntries' :
            Len(e.pose) = 2 =>
              \E p \in look'[e.pkt.about].read :
                 e.pose = <<toAngle(p[1]), toAngle(p[2])>>]_vars

\* C36: a call of Start or SetPort that has returned received the result
\* of net.Listen for the port it submitted; while a call waits for its
\* reply the goroutine is at work on the port of that call, so that no
\* reply is lost and none goes to another call
C36_PortHandshake ==
    \A c \in Callers :
      /\ lsn.calls[c].pc = "returned" => lsn.calls[c].reply.port = PortOf(c)
      /\ lsn.calls[c].pc = "recv" =>
           /\ lsn.port \in {"listen", "reply"}
           /\ lsn.newPort = PortOf(c)
           /\ \A d \in Callers \ {c} : lsn.calls[d].pc # "recv"

C36_Witness ==
    /\ \A c \in Callers : lsn.calls[c].pc = "returned"
    /\ lsn.calls[1].reply.ok /\ ~lsn.calls[2].reply.ok
    /\ lsn.listener = PortOf(1)

\* C37: once Close has been called the accept loop ends and the listener is
\* closed, whether or not a client connects, and no session is started for
\* a connection accepted after Close
C37_AcceptorStops ==
    /\ [](lsn.portValue = "closed" => <>(lsn.acc = "done"))
    /\ [][lsn.late' = lsn.late]_vars
====
